---- MODULE Spec2Model ----
(***************************************************************************)
(* Model of the affix-file parser of zspell-next (parser_affix.rs) and of  *)
(* the .test file reader of test-util (TestManager::new_from_str).         *)
(*                                                                         *)
(* A Rust &str is modelled as a sequence of characters, each character a   *)
(* TLA+ string: an ASCII character is the one-character string itself      *)
(* ("\n", "\r", "#", "A", ...); any other scalar is written by its code    *)
(* point, U+ and four to six upper-case hexadecimal digits ("U+00E9" is    *)
(* e-acute, "U+00A0" the no-break space, "U+000B" the vertical tab).       *)
(* scalar gives the code point of a character; the Unicode properties the  *)
(* code asks about (White_Space, the regex classes \d and \w, the          *)
(* lowercase mappings) are tables of code points, those of the libraries   *)
(* the program is built with: regex-syntax 0.8.10 for the regex classes    *)
(* (Unicode 16.0), the standard library of Rust 1.95 for char and str      *)
(* (Unicode 17.0).  Width gives the UTF-8                                  *)
(* length of a character, so that the byte offsets the code slices with    *)
(* can be told from character positions.                                   *)
(*                                                                         *)
(* A Rust function whose body binds a value and then uses it several times *)
(* is written as a chain of operators, each taking the value bound so far  *)
(* as a parameter: munch_newline(s) hands find(s, '\n') to munch_at, and   *)
(* so on.  The chain computes what the function computes, in its order.    *)
(***************************************************************************)
EXTENDS Integers, Sequences, FiniteSets, TLC

VARIABLES blocks, input, working, ret, starts, nlines, status, err,
          content_iter, fname

vars == <<blocks, input, working, ret, starts, nlines, status, err,
         content_iter, fname>>

(***************************************************************************)
(* Characters                                                              *)
(***************************************************************************)

\* the characters of U+0020 to U+007E in their order; the grave accent,
\* which a string of this language cannot hold, is written by its name
ASCII == <<
    " ", "!", "\"", "#", "$", "%", "&", "'", "(", ")", "*", "+", ",", "-",
    ".", "/", "0", "1", "2", "3", "4", "5", "6", "7", "8", "9", ":", ";",
    "<", "=", ">", "?", "@", "A", "B", "C", "D", "E", "F", "G", "H", "I",
    "J", "K", "L", "M", "N", "O", "P", "Q", "R", "S", "T", "U", "V", "W",
    "X", "Y", "Z", "[", "\\", "]", "^", "_", "U+0060", "a", "b", "c", "d",
    "e", "f", "g", "h", "i", "j", "k", "l", "m", "n", "o", "p", "q", "r",
    "s", "t", "u", "v", "w", "x", "y", "z", "{", "|", "}", "~" >>

HEX == <<"0", "1", "2", "3", "4", "5", "6", "7", "8", "9",
         "A", "B", "C", "D", "E", "F">>

\* the value of the hexadecimal digits of the name U+h..h up to position n
RECURSIVE hex_value(_, _)
hex_value(name, n) ==
    IF n <= 2 THEN 0
    ELSE 16 * hex_value(name, n - 1)
           + (CHOOSE k \in 1..16 : HEX[k] = SubSeq(name, n, n)) - 1

\* c as u32: the scalar value of the character c
scalar(c) ==
    IF Len(c) > 1 THEN hex_value(c, Len(c))
    ELSE IF c = "\t" THEN 9
    ELSE IF c = "\n" THEN 10
    ELSE IF c = "\f" THEN 12
    ELSE IF c = "\r" THEN 13
    ELSE 31 + (CHOOSE k \in 1..Len(ASCII) : ASCII[k] = c)

\* the hexadecimal digits of cp, at least width of them
RECURSIVE hex_name(_, _)
hex_name(cp, width) ==
    IF cp = 0 /\ width <= 0 THEN ""
    ELSE hex_name(cp \div 16, width - 1) \o HEX[(cp % 16) + 1]

\* char::from_u32: the character of scalar value cp
name_of(cp) ==
    IF cp = 9 THEN "\t"
    ELSE IF cp = 10 THEN "\n"
    ELSE IF cp = 12 THEN "\f"
    ELSE IF cp = 13 THEN "\r"
    ELSE IF 32 <= cp /\ cp <= 126 THEN ASCII[cp - 31]
    ELSE "U+" \o hex_name(cp, 4)

\* cp lies in one of the ranges <<first, last>> of the table
in_ranges(cp, table) ==
    \E k \in 1..Len(table) : table[k][1] <= cp /\ cp <= table[k][2]

\* char::len_utf8
Width(c) ==
    IF Len(c) = 1 \/ scalar(c) < 128 THEN 1
    ELSE IF scalar(c) < 2048 THEN 2
    ELSE IF scalar(c) < 65536 THEN 3
    ELSE 4

\* the property White_Space
WHITE_SPACE == <<
    <<9, 13>>, <<32, 32>>, <<133, 133>>, <<160, 160>>, <<5760, 5760>>,
    <<8192, 8202>>, <<8232, 8233>>, <<8239, 8239>>, <<8287, 8287>>,
    <<12288, 12288>> >>

\* char::is_whitespace (Unicode White_Space), also the regex class \s
is_whitespace(c) ==
    IF Len(c) = 1 THEN c \in {" ", "\t", "\n", "\f", "\r"}
    ELSE in_ranges(scalar(c), WHITE_SPACE)

\* the general category Nd (decimal digits), as regex-syntax 0.8.10 holds
\* it (Unicode 16.0)
DECIMAL_NUMBER == <<
    <<48, 57>>, <<1632, 1641>>, <<1776, 1785>>, <<1984, 1993>>,
    <<2406, 2415>>, <<2534, 2543>>, <<2662, 2671>>, <<2790, 2799>>,
    <<2918, 2927>>, <<3046, 3055>>, <<3174, 3183>>, <<3302, 3311>>,
    <<3430, 3439>>, <<3558, 3567>>, <<3664, 3673>>, <<3792, 3801>>,
    <<3872, 3881>>, <<4160, 4169>>, <<4240, 4249>>, <<6112, 6121>>,
    <<6160, 6169>>, <<6470, 6479>>, <<6608, 6617>>, <<6784, 6793>>,
    <<6800, 6809>>, <<6992, 7001>>, <<7088, 7097>>, <<7232, 7241>>,
    <<7248, 7257>>, <<42528, 42537>>, <<43216, 43225>>, <<43264, 43273>>,
    <<43472, 43481>>, <<43504, 43513>>, <<43600, 43609>>, <<44016, 44025>>,
    <<65296, 65305>>, <<66720, 66729>>, <<68912, 68921>>, <<68928, 68937>>,
    <<69734, 69743>>, <<69872, 69881>>, <<69942, 69951>>, <<70096, 70105>>,
    <<70384, 70393>>, <<70736, 70745>>, <<70864, 70873>>, <<71248, 71257>>,
    <<71360, 71369>>, <<71376, 71395>>, <<71472, 71481>>, <<71904, 71913>>,
    <<72016, 72025>>, <<72688, 72697>>, <<72784, 72793>>, <<73040, 73049>>,
    <<73120, 73129>>, <<73552, 73561>>, <<90416, 90425>>, <<92768, 92777>>,
    <<92864, 92873>>, <<93008, 93017>>, <<93552, 93561>>, <<118000, 118009>>,
    <<120782, 120831>>, <<123200, 123209>>, <<123632, 123641>>,
    <<124144, 124153>>, <<124401, 124410>>, <<125264, 125273>>,
    <<130032, 130041>> >>

\* the regex class \d: the Unicode decimal digits
IsDigit(c) ==
    IF Len(c) = 1
    THEN c \in {"0", "1", "2", "3", "4", "5", "6", "7", "8", "9"}
    ELSE in_ranges(scalar(c), DECIMAL_NUMBER)

\* the characters of the regex class \w: the property Alphabetic, the
\* marks (M), the decimal digits (Nd), the connector punctuation (Pc) and
\* the two join controls, as regex-syntax 0.8.10 holds them (Unicode 16.0)
WORD_CHARACTER == <<
    <<48, 57>>, <<65, 90>>, <<95, 95>>, <<97, 122>>, <<170, 170>>,
    <<181, 181>>, <<186, 186>>, <<192, 214>>, <<216, 246>>, <<248, 705>>,
    <<710, 721>>, <<736, 740>>, <<748, 748>>, <<750, 750>>, <<768, 884>>,
    <<886, 887>>, <<890, 893>>, <<895, 895>>, <<902, 902>>, <<904, 906>>,
    <<908, 908>>, <<910, 929>>, <<931, 1013>>, <<1015, 1153>>,
    <<1155, 1327>>, <<1329, 1366>>, <<1369, 1369>>, <<1376, 1416>>,
    <<1425, 1469>>, <<1471, 1471>>, <<1473, 1474>>, <<1476, 1477>>,
    <<1479, 1479>>, <<1488, 1514>>, <<1519, 1522>>, <<1552, 1562>>,
    <<1568, 1641>>, <<1646, 1747>>, <<1749, 1756>>, <<1759, 1768>>,
    <<1770, 1788>>, <<1791, 1791>>, <<1808, 1866>>, <<1869, 1969>>,
    <<1984, 2037>>, <<2042, 2042>>, <<2045, 2045>>, <<2048, 2093>>,
    <<2112, 2139>>, <<2144, 2154>>, <<2160, 2183>>, <<2185, 2190>>,
    <<2199, 2273>>, <<2275, 2403>>, <<2406, 2415>>, <<2417, 2435>>,
    <<2437, 2444>>, <<2447, 2448>>, <<2451, 2472>>, <<2474, 2480>>,
    <<2482, 2482>>, <<2486, 2489>>, <<2492, 2500>>, <<2503, 2504>>,
    <<2507, 2510>>, <<2519, 2519>>, <<2524, 2525>>, <<2527, 2531>>,
    <<2534, 2545>>, <<2556, 2556>>, <<2558, 2558>>, <<2561, 2563>>,
    <<2565, 2570>>, <<2575, 2576>>, <<2579, 2600>>, <<2602, 2608>>,
    <<2610, 2611>>, <<2613, 2614>>, <<2616, 2617>>, <<2620, 2620>>,
    <<2622, 2626>>, <<2631, 2632>>, <<2635, 2637>>, <<2641, 2641>>,
    <<2649, 2652>>, <<2654, 2654>>, <<2662, 2677>>, <<2689, 2691>>,
    <<2693, 2701>>, <<2703, 2705>>, <<2707, 2728>>, <<2730, 2736>>,
    <<2738, 2739>>, <<2741, 2745>>, <<2748, 2757>>, <<2759, 2761>>,
    <<2763, 2765>>, <<2768, 2768>>, <<2784, 2787>>, <<2790, 2799>>,
    <<2809, 2815>>, <<2817, 2819>>, <<2821, 2828>>, <<2831, 2832>>,
    <<2835, 2856>>, <<2858, 2864>>, <<2866, 2867>>, <<2869, 2873>>,
    <<2876, 2884>>, <<2887, 2888>>, <<2891, 2893>>, <<2901, 2903>>,
    <<2908, 2909>>, <<2911, 2915>>, <<2918, 2927>>, <<2929, 2929>>,
    <<2946, 2947>>, <<2949, 2954>>, <<2958, 2960>>, <<2962, 2965>>,
    <<2969, 2970>>, <<2972, 2972>>, <<2974, 2975>>, <<2979, 2980>>,
    <<2984, 2986>>, <<2990, 3001>>, <<3006, 3010>>, <<3014, 3016>>,
    <<3018, 3021>>, <<3024, 3024>>, <<3031, 3031>>, <<3046, 3055>>,
    <<3072, 3084>>, <<3086, 3088>>, <<3090, 3112>>, <<3114, 3129>>,
    <<3132, 3140>>, <<3142, 3144>>, <<3146, 3149>>, <<3157, 3158>>,
    <<3160, 3162>>, <<3165, 3165>>, <<3168, 3171>>, <<3174, 3183>>,
    <<3200, 3203>>, <<3205, 3212>>, <<3214, 3216>>, <<3218, 3240>>,
    <<3242, 3251>>, <<3253, 3257>>, <<3260, 3268>>, <<3270, 3272>>,
    <<3274, 3277>>, <<3285, 3286>>, <<3293, 3294>>, <<3296, 3299>>,
    <<3302, 3311>>, <<3313, 3315>>, <<3328, 3340>>, <<3342, 3344>>,
    <<3346, 3396>>, <<3398, 3400>>, <<3402, 3406>>, <<3412, 3415>>,
    <<3423, 3427>>, <<3430, 3439>>, <<3450, 3455>>, <<3457, 3459>>,
    <<3461, 3478>>, <<3482, 3505>>, <<3507, 3515>>, <<3517, 3517>>,
    <<3520, 3526>>, <<3530, 3530>>, <<3535, 3540>>, <<3542, 3542>>,
    <<3544, 3551>>, <<3558, 3567>>, <<3570, 3571>>, <<3585, 3642>>,
    <<3648, 3662>>, <<3664, 3673>>, <<3713, 3714>>, <<3716, 3716>>,
    <<3718, 3722>>, <<3724, 3747>>, <<3749, 3749>>, <<3751, 3773>>,
    <<3776, 3780>>, <<3782, 3782>>, <<3784, 3790>>, <<3792, 3801>>,
    <<3804, 3807>>, <<3840, 3840>>, <<3864, 3865>>, <<3872, 3881>>,
    <<3893, 3893>>, <<3895, 3895>>, <<3897, 3897>>, <<3902, 3911>>,
    <<3913, 3948>>, <<3953, 3972>>, <<3974, 3991>>, <<3993, 4028>>,
    <<4038, 4038>>, <<4096, 4169>>, <<4176, 4253>>, <<4256, 4293>>,
    <<4295, 4295>>, <<4301, 4301>>, <<4304, 4346>>, <<4348, 4680>>,
    <<4682, 4685>>, <<4688, 4694>>, <<4696, 4696>>, <<4698, 4701>>,
    <<4704, 4744>>, <<4746, 4749>>, <<4752, 4784>>, <<4786, 4789>>,
    <<4792, 4798>>, <<4800, 4800>>, <<4802, 4805>>, <<4808, 4822>>,
    <<4824, 4880>>, <<4882, 4885>>, <<4888, 4954>>, <<4957, 4959>>,
    <<4992, 5007>>, <<5024, 5109>>, <<5112, 5117>>, <<5121, 5740>>,
    <<5743, 5759>>, <<5761, 5786>>, <<5792, 5866>>, <<5870, 5880>>,
    <<5888, 5909>>, <<5919, 5940>>, <<5952, 5971>>, <<5984, 5996>>,
    <<5998, 6000>>, <<6002, 6003>>, <<6016, 6099>>, <<6103, 6103>>,
    <<6108, 6109>>, <<6112, 6121>>, <<6155, 6157>>, <<6159, 6169>>,
    <<6176, 6264>>, <<6272, 6314>>, <<6320, 6389>>, <<6400, 6430>>,
    <<6432, 6443>>, <<6448, 6459>>, <<6470, 6509>>, <<6512, 6516>>,
    <<6528, 6571>>, <<6576, 6601>>, <<6608, 6617>>, <<6656, 6683>>,
    <<6688, 6750>>, <<6752, 6780>>, <<6783, 6793>>, <<6800, 6809>>,
    <<6823, 6823>>, <<6832, 6862>>, <<6912, 6988>>, <<6992, 7001>>,
    <<7019, 7027>>, <<7040, 7155>>, <<7168, 7223>>, <<7232, 7241>>,
    <<7245, 7293>>, <<7296, 7306>>, <<7312, 7354>>, <<7357, 7359>>,
    <<7376, 7378>>, <<7380, 7418>>, <<7424, 7957>>, <<7960, 7965>>,
    <<7968, 8005>>, <<8008, 8013>>, <<8016, 8023>>, <<8025, 8025>>,
    <<8027, 8027>>, <<8029, 8029>>, <<8031, 8061>>, <<8064, 8116>>,
    <<8118, 8124>>, <<8126, 8126>>, <<8130, 8132>>, <<8134, 8140>>,
    <<8144, 8147>>, <<8150, 8155>>, <<8160, 8172>>, <<8178, 8180>>,
    <<8182, 8188>>, <<8204, 8205>>, <<8255, 8256>>, <<8276, 8276>>,
    <<8305, 8305>>, <<8319, 8319>>, <<8336, 8348>>, <<8400, 8432>>,
    <<8450, 8450>>, <<8455, 8455>>, <<8458, 8467>>, <<8469, 8469>>,
    <<8473, 8477>>, <<8484, 8484>>, <<8486, 8486>>, <<8488, 8488>>,
    <<8490, 8493>>, <<8495, 8505>>, <<8508, 8511>>, <<8517, 8521>>,
    <<8526, 8526>>, <<8544, 8584>>, <<9398, 9449>>, <<11264, 11492>>,
    <<11499, 11507>>, <<11520, 11557>>, <<11559, 11559>>, <<11565, 11565>>,
    <<11568, 11623>>, <<11631, 11631>>, <<11647, 11670>>, <<11680, 11686>>,
    <<11688, 11694>>, <<11696, 11702>>, <<11704, 11710>>, <<11712, 11718>>,
    <<11720, 11726>>, <<11728, 11734>>, <<11736, 11742>>, <<11744, 11775>>,
    <<11823, 11823>>, <<12293, 12295>>, <<12321, 12335>>, <<12337, 12341>>,
    <<12344, 12348>>, <<12353, 12438>>, <<12441, 12442>>, <<12445, 12447>>,
    <<12449, 12538>>, <<12540, 12543>>, <<12549, 12591>>, <<12593, 12686>>,
    <<12704, 12735>>, <<12784, 12799>>, <<13312, 19903>>, <<19968, 42124>>,
    <<42192, 42237>>, <<42240, 42508>>, <<42512, 42539>>, <<42560, 42610>>,
    <<42612, 42621>>, <<42623, 42737>>, <<42775, 42783>>, <<42786, 42888>>,
    <<42891, 42957>>, <<42960, 42961>>, <<42963, 42963>>, <<42965, 42972>>,
    <<42994, 43047>>, <<43052, 43052>>, <<43072, 43123>>, <<43136, 43205>>,
    <<43216, 43225>>, <<43232, 43255>>, <<43259, 43259>>, <<43261, 43309>>,
    <<43312, 43347>>, <<43360, 43388>>, <<43392, 43456>>, <<43471, 43481>>,
    <<43488, 43518>>, <<43520, 43574>>, <<43584, 43597>>, <<43600, 43609>>,
    <<43616, 43638>>, <<43642, 43714>>, <<43739, 43741>>, <<43744, 43759>>,
    <<43762, 43766>>, <<43777, 43782>>, <<43785, 43790>>, <<43793, 43798>>,
    <<43808, 43814>>, <<43816, 43822>>, <<43824, 43866>>, <<43868, 43881>>,
    <<43888, 44010>>, <<44012, 44013>>, <<44016, 44025>>, <<44032, 55203>>,
    <<55216, 55238>>, <<55243, 55291>>, <<63744, 64109>>, <<64112, 64217>>,
    <<64256, 64262>>, <<64275, 64279>>, <<64285, 64296>>, <<64298, 64310>>,
    <<64312, 64316>>, <<64318, 64318>>, <<64320, 64321>>, <<64323, 64324>>,
    <<64326, 64433>>, <<64467, 64829>>, <<64848, 64911>>, <<64914, 64967>>,
    <<65008, 65019>>, <<65024, 65039>>, <<65056, 65071>>, <<65075, 65076>>,
    <<65101, 65103>>, <<65136, 65140>>, <<65142, 65276>>, <<65296, 65305>>,
    <<65313, 65338>>, <<65343, 65343>>, <<65345, 65370>>, <<65382, 65470>>,
    <<65474, 65479>>, <<65482, 65487>>, <<65490, 65495>>, <<65498, 65500>>,
    <<65536, 65547>>, <<65549, 65574>>, <<65576, 65594>>, <<65596, 65597>>,
    <<65599, 65613>>, <<65616, 65629>>, <<65664, 65786>>, <<65856, 65908>>,
    <<66045, 66045>>, <<66176, 66204>>, <<66208, 66256>>, <<66272, 66272>>,
    <<66304, 66335>>, <<66349, 66378>>, <<66384, 66426>>, <<66432, 66461>>,
    <<66464, 66499>>, <<66504, 66511>>, <<66513, 66517>>, <<66560, 66717>>,
    <<66720, 66729>>, <<66736, 66771>>, <<66776, 66811>>, <<66816, 66855>>,
    <<66864, 66915>>, <<66928, 66938>>, <<66940, 66954>>, <<66956, 66962>>,
    <<66964, 66965>>, <<66967, 66977>>, <<66979, 66993>>, <<66995, 67001>>,
    <<67003, 67004>>, <<67008, 67059>>, <<67072, 67382>>, <<67392, 67413>>,
    <<67424, 67431>>, <<67456, 67461>>, <<67463, 67504>>, <<67506, 67514>>,
    <<67584, 67589>>, <<67592, 67592>>, <<67594, 67637>>, <<67639, 67640>>,
    <<67644, 67644>>, <<67647, 67669>>, <<67680, 67702>>, <<67712, 67742>>,
    <<67808, 67826>>, <<67828, 67829>>, <<67840, 67861>>, <<67872, 67897>>,
    <<67968, 68023>>, <<68030, 68031>>, <<68096, 68099>>, <<68101, 68102>>,
    <<68108, 68115>>, <<68117, 68119>>, <<68121, 68149>>, <<68152, 68154>>,
    <<68159, 68159>>, <<68192, 68220>>, <<68224, 68252>>, <<68288, 68295>>,
    <<68297, 68326>>, <<68352, 68405>>, <<68416, 68437>>, <<68448, 68466>>,
    <<68480, 68497>>, <<68608, 68680>>, <<68736, 68786>>, <<68800, 68850>>,
    <<68864, 68903>>, <<68912, 68921>>, <<68928, 68965>>, <<68969, 68973>>,
    <<68975, 68997>>, <<69248, 69289>>, <<69291, 69292>>, <<69296, 69297>>,
    <<69314, 69316>>, <<69372, 69404>>, <<69415, 69415>>, <<69424, 69456>>,
    <<69488, 69509>>, <<69552, 69572>>, <<69600, 69622>>, <<69632, 69702>>,
    <<69734, 69749>>, <<69759, 69818>>, <<69826, 69826>>, <<69840, 69864>>,
    <<69872, 69881>>, <<69888, 69940>>, <<69942, 69951>>, <<69956, 69959>>,
    <<69968, 70003>>, <<70006, 70006>>, <<70016, 70084>>, <<70089, 70092>>,
    <<70094, 70106>>, <<70108, 70108>>, <<70144, 70161>>, <<70163, 70199>>,
    <<70206, 70209>>, <<70272, 70278>>, <<70280, 70280>>, <<70282, 70285>>,
    <<70287, 70301>>, <<70303, 70312>>, <<70320, 70378>>, <<70384, 70393>>,
    <<70400, 70403>>, <<70405, 70412>>, <<70415, 70416>>, <<70419, 70440>>,
    <<70442, 70448>>, <<70450, 70451>>, <<70453, 70457>>, <<70459, 70468>>,
    <<70471, 70472>>, <<70475, 70477>>, <<70480, 70480>>, <<70487, 70487>>,
    <<70493, 70499>>, <<70502, 70508>>, <<70512, 70516>>, <<70528, 70537>>,
    <<70539, 70539>>, <<70542, 70542>>, <<70544, 70581>>, <<70583, 70592>>,
    <<70594, 70594>>, <<70597, 70597>>, <<70599, 70602>>, <<70604, 70611>>,
    <<70625, 70626>>, <<70656, 70730>>, <<70736, 70745>>, <<70750, 70753>>,
    <<70784, 70853>>, <<70855, 70855>>, <<70864, 70873>>, <<71040, 71093>>,
    <<71096, 71104>>, <<71128, 71133>>, <<71168, 71232>>, <<71236, 71236>>,
    <<71248, 71257>>, <<71296, 71352>>, <<71360, 71369>>, <<71376, 71395>>,
    <<71424, 71450>>, <<71453, 71467>>, <<71472, 71481>>, <<71488, 71494>>,
    <<71680, 71738>>, <<71840, 71913>>, <<71935, 71942>>, <<71945, 71945>>,
    <<71948, 71955>>, <<71957, 71958>>, <<71960, 71989>>, <<71991, 71992>>,
    <<71995, 72003>>, <<72016, 72025>>, <<72096, 72103>>, <<72106, 72151>>,
    <<72154, 72161>>, <<72163, 72164>>, <<72192, 72254>>, <<72263, 72263>>,
    <<72272, 72345>>, <<72349, 72349>>, <<72368, 72440>>, <<72640, 72672>>,
    <<72688, 72697>>, <<72704, 72712>>, <<72714, 72758>>, <<72760, 72768>>,
    <<72784, 72793>>, <<72818, 72847>>, <<72850, 72871>>, <<72873, 72886>>,
    <<72960, 72966>>, <<72968, 72969>>, <<72971, 73014>>, <<73018, 73018>>,
    <<73020, 73021>>, <<73023, 73031>>, <<73040, 73049>>, <<73056, 73061>>,
    <<73063, 73064>>, <<73066, 73102>>, <<73104, 73105>>, <<73107, 73112>>,
    <<73120, 73129>>, <<73440, 73462>>, <<73472, 73488>>, <<73490, 73530>>,
    <<73534, 73538>>, <<73552, 73562>>, <<73648, 73648>>, <<73728, 74649>>,
    <<74752, 74862>>, <<74880, 75075>>, <<77712, 77808>>, <<77824, 78895>>,
    <<78912, 78933>>, <<78944, 82938>>, <<82944, 83526>>, <<90368, 90425>>,
    <<92160, 92728>>, <<92736, 92766>>, <<92768, 92777>>, <<92784, 92862>>,
    <<92864, 92873>>, <<92880, 92909>>, <<92912, 92916>>, <<92928, 92982>>,
    <<92992, 92995>>, <<93008, 93017>>, <<93027, 93047>>, <<93053, 93071>>,
    <<93504, 93548>>, <<93552, 93561>>, <<93760, 93823>>, <<93952, 94026>>,
    <<94031, 94087>>, <<94095, 94111>>, <<94176, 94177>>, <<94179, 94180>>,
    <<94192, 94193>>, <<94208, 100343>>, <<100352, 101589>>,
    <<101631, 101640>>, <<110576, 110579>>, <<110581, 110587>>,
    <<110589, 110590>>, <<110592, 110882>>, <<110898, 110898>>,
    <<110928, 110930>>, <<110933, 110933>>, <<110948, 110951>>,
    <<110960, 111355>>, <<113664, 113770>>, <<113776, 113788>>,
    <<113792, 113800>>, <<113808, 113817>>, <<113821, 113822>>,
    <<118000, 118009>>, <<118528, 118573>>, <<118576, 118598>>,
    <<119141, 119145>>, <<119149, 119154>>, <<119163, 119170>>,
    <<119173, 119179>>, <<119210, 119213>>, <<119362, 119364>>,
    <<119808, 119892>>, <<119894, 119964>>, <<119966, 119967>>,
    <<119970, 119970>>, <<119973, 119974>>, <<119977, 119980>>,
    <<119982, 119993>>, <<119995, 119995>>, <<119997, 120003>>,
    <<120005, 120069>>, <<120071, 120074>>, <<120077, 120084>>,
    <<120086, 120092>>, <<120094, 120121>>, <<120123, 120126>>,
    <<120128, 120132>>, <<120134, 120134>>, <<120138, 120144>>,
    <<120146, 120485>>, <<120488, 120512>>, <<120514, 120538>>,
    <<120540, 120570>>, <<120572, 120596>>, <<120598, 120628>>,
    <<120630, 120654>>, <<120656, 120686>>, <<120688, 120712>>,
    <<120714, 120744>>, <<120746, 120770>>, <<120772, 120779>>,
    <<120782, 120831>>, <<121344, 121398>>, <<121403, 121452>>,
    <<121461, 121461>>, <<121476, 121476>>, <<121499, 121503>>,
    <<121505, 121519>>, <<122624, 122654>>, <<122661, 122666>>,
    <<122880, 122886>>, <<122888, 122904>>, <<122907, 122913>>,
    <<122915, 122916>>, <<122918, 122922>>, <<122928, 122989>>,
    <<123023, 123023>>, <<123136, 123180>>, <<123184, 123197>>,
    <<123200, 123209>>, <<123214, 123214>>, <<123536, 123566>>,
    <<123584, 123641>>, <<124112, 124153>>, <<124368, 124410>>,
    <<124896, 124902>>, <<124904, 124907>>, <<124909, 124910>>,
    <<124912, 124926>>, <<124928, 125124>>, <<125136, 125142>>,
    <<125184, 125259>>, <<125264, 125273>>, <<126464, 126467>>,
    <<126469, 126495>>, <<126497, 126498>>, <<126500, 126500>>,
    <<126503, 126503>>, <<126505, 126514>>, <<126516, 126519>>,
    <<126521, 126521>>, <<126523, 126523>>, <<126530, 126530>>,
    <<126535, 126535>>, <<126537, 126537>>, <<126539, 126539>>,
    <<126541, 126543>>, <<126545, 126546>>, <<126548, 126548>>,
    <<126551, 126551>>, <<126553, 126553>>, <<126555, 126555>>,
    <<126557, 126557>>, <<126559, 126559>>, <<126561, 126562>>,
    <<126564, 126564>>, <<126567, 126570>>, <<126572, 126578>>,
    <<126580, 126583>>, <<126585, 126588>>, <<126590, 126590>>,
    <<126592, 126601>>, <<126603, 126619>>, <<126625, 126627>>,
    <<126629, 126633>>, <<126635, 126651>>, <<127280, 127305>>,
    <<127312, 127337>>, <<127344, 127369>>, <<130032, 130041>>,
    <<131072, 173791>>, <<173824, 177977>>, <<177984, 178205>>,
    <<178208, 183969>>, <<183984, 191456>>, <<191472, 192093>>,
    <<194560, 195101>>, <<196608, 201546>>, <<201552, 205743>>,
    <<917760, 917999>> >>

\* the regex class \w
IsWord(c) ==
    IF Len(c) = 1
    THEN c \in {"0", "1", "2", "3", "4", "5", "6", "7", "8", "9",
                "A", "B", "C", "D", "E", "F", "G", "H", "I", "J", "K", "L", "M",
                "N", "O", "P", "Q", "R", "S", "T", "U", "V", "W", "X", "Y", "Z",
                "a", "b", "c", "d", "e", "f", "g", "h", "i", "j", "k", "l", "m",
                "n", "o", "p", "q", "r", "s", "t", "u", "v", "w", "x", "y", "z",
                "_"}
    ELSE in_ranges(scalar(c), WORD_CHARACTER)

\* Characters considered line enders; '#' is included so comments get cut off
SEPARATORS == {"\r", "\n", "#"}

LINE_TERMINATORS == {"\r", "\n"}

(***************************************************************************)
(* &str helpers of the standard library, on character sequences            *)
(***************************************************************************)

Min(S) == CHOOSE x \in S : \A y \in S : x <= y

Max(S) == CHOOSE x \in S : \A y \in S : y <= x

\* the least element of a set of positions, 0 for the empty set
FirstOf(S) == IF S = {} THEN 0 ELSE Min(S)

\* s[from..] in characters (from is 1-based, the first character kept)
DropTo(s, from) == SubSeq(s, from, Len(s))

\* starts_with comparing one character less than the key holds
starts_with_short(s, key) ==
    /\ Len(s) >= Len(key) - 1
    /\ SubSeq(s, 1, Len(key) - 1) = SubSeq(key, 1, Len(key) - 1)

\* str::starts_with
starts_with(s, key) ==
    /\ Len(s) >= Len(key)
    /\ SubSeq(s, 1, Len(key)) = key

\* str::find with a set of characters: the 1-based position of the first
\* character of s that is in cs, 0 when there is none
find(s, cs) == FirstOf({i \in 1..Len(s) : s[i] \in cs})

\* str::find(|c| !c.is_whitespace()), as a 1-based position, 0 for None
find_non_whitespace(s) == FirstOf({i \in 1..Len(s) : ~is_whitespace(s[i])})

\* the number of bytes before the character at position i
ByteOffset(s, i) ==
    LET Sum[k \in 0..Len(s)] == IF k = 0 THEN 0 ELSE Sum[k - 1] + Width(s[k])
    IN  Sum[i - 1]

\* str::trim
trim_to(s, keep) == IF keep = {} THEN <<>> ELSE SubSeq(s, Min(keep), Max(keep))

trim(s) == trim_to(s, {i \in 1..Len(s) : ~is_whitespace(s[i])})

\* the k-th element, in increasing order, of a set of positions
RECURSIVE NthOf(_, _)
NthOf(S, k) == IF k = 1 THEN Min(S) ELSE NthOf(S \ {Min(S)}, k - 1)

\* the end of the run of non-whitespace characters that starts at i
token_end(s, i) ==
    Min({j \in i..Len(s) : j = Len(s) \/ is_whitespace(s[j + 1])})

tokens_at(s, begins) ==
    [k \in 1..Cardinality(begins) |->
        SubSeq(s, NthOf(begins, k), token_end(s, NthOf(begins, k)))]

\* the positions of s where a run of non-whitespace characters begins
token_begins(s) ==
    {i \in 1..Len(s) : ~is_whitespace(s[i]) /\ (i = 1 \/ is_whitespace(s[i - 1]))}

\* str::split_whitespace: the maximal runs of non-whitespace characters
split_whitespace(s) == tokens_at(s, token_begins(s))

pieces_at(s, cuts) ==
    [k \in 1..(Cardinality(cuts) + 1) |->
        SubSeq(s,
               IF k = 1 THEN 1 ELSE NthOf(cuts, k - 1) + 1,
               IF k = Cardinality(cuts) + 1 THEN Len(s) ELSE NthOf(cuts, k) - 1)]

\* str::split(c): the pieces between the occurrences of c
split_char(s, c) == pieces_at(s, {i \in 1..Len(s) : s[i] = c})

\* str::contains(char::is_whitespace)
contains_whitespace(s) == \E i \in 1..Len(s) : is_whitespace(s[i])

(***************************************************************************)
(* Errors (crate::error)                                                   *)
(***************************************************************************)

\* ParseError::new(ctx, line, col)
ParseError_new(ctx, line, col) == [ctx |-> ctx, line |-> line, col |-> col]

\* ParseError::new_nospan(ctx) and From<ParseErrorType>: zero offsets
new_nospan(ctx) == ParseError_new(ctx, 0, 0)

\* ParseError::add_offset_ret: the base line is summed into the stored line
add_offset_ret(e, lines, cols) ==
    [e EXCEPT !.line = @ + lines, !.col = @ + cols]

\* The shapes of a ParseResult (and of munch_newline's result); Abort stands
\* for a panic of the Rust code
ResNone == [tag |-> "None"]
ResErr(e) == [tag |-> "Err", err |-> e]
ResAbort(why) == [tag |-> "Abort", why |-> why]
ResSome(node, residual, nl) ==
    [tag |-> "Some", node |-> node, residual |-> residual, nl |-> nl]

\* Result<T, ParseError> of a payload function
Ok(v) == [ok |-> TRUE, val |-> v]
Err(e) == [ok |-> FALSE, err |-> e]

\* Option<String>
None == [some |-> FALSE]
Some(v) == [some |-> TRUE, val |-> v]

(***************************************************************************)
(* Parser helpers                                                          *)
(***************************************************************************)

\* line_splitter, once the separator is found at position i (0: not found).
\* A separator inside the key makes the slice &s[key.len()..i] begin after
\* its end, which panics.
line_split_at(s, key, i) ==
    IF i # 0 /\ i <= Len(key)
    THEN ResAbort("line_splitter: slice begin > end")
    ELSE [found |-> TRUE,
          work |-> trim(IF i # 0 THEN SubSeq(s, Len(key) + 1, i - 1)
                    ELSE DropTo(s, Len(key) + 1)),
          residual |-> IF i # 0 THEN DropTo(s, i) ELSE <<>>]

\* line_splitter: found = FALSE is None; otherwise (work, residual); the
\* panic is the only answer that has a tag
line_splitter(s, key) ==
    IF ~starts_with(s, key) THEN [found |-> FALSE]
    ELSE line_split_at(s, key,
             find(s, IF key = <<"#">> THEN LINE_TERMINATORS ELSE SEPARATORS))

\* munch_newline's last expression: idz is the BYTE index that str::find
\* returned for the first non-whitespace character (at position bad), and
\* validate.chars().nth(idz) the character at CHARACTER index idz; the
\* unwrap panics when validate has no more than idz characters
munch_validate(validate, rest, bad, idz) ==
    IF bad = 0 THEN [tag |-> "Some", rest |-> rest]
    ELSE IF idz + 1 > Len(validate) THEN ResAbort("munch_newline: nth(idz) is None")
    ELSE ResErr(new_nospan([kind |-> "NonWhitespace", c |-> validate[idz + 1]]))

\* munch_newline once validate is cut at the first '#'
munch_checked(validate, rest, bad) ==
    munch_validate(validate, rest, bad,
                   IF bad = 0 THEN 0 ELSE ByteOffset(validate, bad))

\* munch_newline once the '\n' is found at position i_term
munch_line(before, rest, cmt_idx) ==
    munch_checked(IF cmt_idx # 0 THEN SubSeq(before, 1, cmt_idx - 1) ELSE before,
                  rest,
                  find_non_whitespace(IF cmt_idx # 0
                                      THEN SubSeq(before, 1, cmt_idx - 1)
                                      ELSE before))

munch_at(s, i_term) ==
    IF i_term = 0 THEN ResNone
    ELSE munch_line(SubSeq(s, 1, i_term - 1), DropTo(s, i_term + 1),
                    find(SubSeq(s, 1, i_term - 1), {"#"}))

\* munch_newline: None when s holds no '\n'; Some(rest) when the text
\* before it, cut at the first '#', is all whitespace; otherwise an error
munch_newline(s) == munch_at(s, find(s, {"\n"}))

(***************************************************************************)
(* Integer payloads: <T as FromStr>::from_str for the unsigned types       *)
(***************************************************************************)

DIGITS == <<"0", "1", "2", "3", "4", "5", "6", "7", "8", "9">>

DigitVal(c) == (CHOOSE d \in 1..10 : DIGITS[d] = c) - 1

\* u32::MAX, 4294967295, as a numeral (it does not fit TLC's integers)
U32_MAX == <<"4", "2", "9", "4", "9", "6", "7", "2", "9", "5">>

\* the numeral without its leading zeros (empty for zero)
strip_zeros(ds) ==
    IF \A i \in 1..Len(ds) : ds[i] = "0" THEN <<>>
    ELSE DropTo(ds, FirstOf({i \in 1..Len(ds) : ds[i] # "0"}))

\* a <= b for two numerals without leading zeros
numeral_leq(a, b) ==
    \/ Len(a) < Len(b)
    \/ /\ Len(a) = Len(b)
       /\ \/ a = b
          \/ \E i \in 1..Len(a) :
                /\ SubSeq(a, 1, i - 1) = SubSeq(b, 1, i - 1)
                /\ DigitVal(a[i]) < DigitVal(b[i])

\* the largest integer that the values of this model can be, 2147483647
I32_MAX == <<"2", "1", "4", "7", "4", "8", "3", "6", "4", "7">>

\* the value of a numeral: the integer, or the numeral itself without its
\* leading zeros when it is above I32_MAX
numeral_value(ds) ==
    LET V[k \in 0..Len(ds)] ==
            IF k = 0 THEN 0 ELSE 10 * V[k - 1] + DigitVal(ds[k])
    IN  IF numeral_leq(strip_zeros(ds), I32_MAX) THEN V[Len(ds)]
        ELSE strip_zeros(ds)

\* val is the value parsed; big tells that it is above I32_MAX and held as
\* a numeral
from_str_digits(ds, max) ==
    IF /\ ds # <<>>
       /\ \A i \in 1..Len(ds) : \E d \in 1..10 : DIGITS[d] = ds[i]
       /\ numeral_leq(strip_zeros(ds), max)
    THEN [ok |-> TRUE, val |-> numeral_value(strip_zeros(ds)),
          big |-> ~numeral_leq(strip_zeros(ds), I32_MAX)]
    ELSE [ok |-> FALSE]

\* str::parse::<uN>(): an optional '+', then one or more ASCII digits, the
\* value at most max (a numeral); anything else is a ParseIntError
from_str_int(s, max) ==
    from_str_digits(IF s # <<>> /\ s[1] = "+" THEN Tail(s) ELSE s, max)

(***************************************************************************)
(* Payload types of crate::affix::types whose parsers are not part of the  *)
(* parser module: only the split between accepted and rejected payloads    *)
(* matters here, and it follows the specification's description of them.   *)
(***************************************************************************)

\* EncodingName: a closed set of identifiers
ENCODING_NAMES ==
    { <<"U", "T", "F", "-", "8">>,
      <<"I", "S", "O", "8", "8", "5", "9", "-", "1">>,
      <<"n", "u", "m">>,
      <<"l", "o", "n", "g">> }

\* Encoding::try_from
Encoding_try_from(s) == IF s \in ENCODING_NAMES THEN Ok(s) ELSE Err(s)

two_tokens(toks, whole, kind) ==
    IF Len(toks) = 2 THEN Ok(toks) ELSE Err([kind |-> kind, s |-> whole])

\* Conversion::from_str(content, bidirectional): a (from, to) pair parsed
\* from a whitespace-separated two-token row
Conversion_from_str(content, bidirectional) ==
    two_tokens(split_whitespace(content), content, "Conversion")

\* Phonetic::try_from: a pattern and its replacement
Phonetic_try_from(item) == two_tokens(split_whitespace(item), item, "Phonetic")

compound_pattern(toks, whole) ==
    IF Len(toks) \in {2, 3} THEN Ok(toks)
    ELSE Err([kind |-> "CompoundPattern", s |-> whole])

\* CompoundPattern::try_from: two patterns and an optional replacement
CompoundPattern_try_from(item) == compound_pattern(split_whitespace(item), item)

\* CompoundSyllable::try_from: a count and the vowels
CompoundSyllable_try_from(s) ==
    two_tokens(split_whitespace(s), s, "CompoundSyllable")

\* MorphInfo::try_from: a "tag:value" token
MorphInfo_try_from(minfo) ==
    IF find(minfo, {":"}) > 1 THEN Ok(minfo)
    ELSE Err([kind |-> "MorphInfoTag", s |-> minfo])

(***************************************************************************)
(* The closures handed to line_key_parser and table_parser.  A closure is   *)
(* written as a record: fn (or row) names its body, afx is the AffixNode   *)
(* variant it builds, key the key it captured; call_work and validate_rows *)
(* apply it.                                                               *)
(***************************************************************************)

closure(fn, afx, key) == [fn |-> fn, afx |-> afx, key |-> key]

\* bool_parser's closure
bool_node(w, key, afx) ==
    IF w = <<>> THEN Ok([tag |-> afx])
    ELSE Err(new_nospan([kind |-> "BadBool", s |-> w, key |-> key]))

\* char_parser's closure
char_node(w, afx) ==
    IF Len(w) = 1 THEN Ok([tag |-> afx, val |-> w[1]])
    ELSE Err(new_nospan([kind |-> "BadChar", count |-> Len(w), s |-> w]))

\* the largest value of the integer payloads (their types are declared with
\* AffixNode, in types.rs)
INT_NODE_MAX == <<"6", "5", "5", "3", "5">>

\* int_parser's closure: s.parse::<T>().map(f).map_err(new_int)
int_node(parsed, w, afx) ==
    IF parsed.ok THEN Ok([tag |-> afx, val |-> parsed.val])
    ELSE Err(new_nospan([kind |-> "BadInt", s |-> w]))

\* Encoding::try_from(s).map(AffixNode::Encoding).map_err(...): parse_flag
\* wraps its value in AffixNode::Encoding as parse_encoding does
encoding_node(r, w, errkind) ==
    IF r.ok THEN Ok([tag |-> "Encoding", val |-> r.val])
    ELSE Err(new_nospan([kind |-> errkind, s |-> w]))

\* parse_compound_syllable's closure
syllable_node(r) ==
    IF r.ok THEN Ok([tag |-> "CompoundSyllable", val |-> r.val])
    ELSE Err(new_nospan(r.err))

\* f(work), for the closure f of a line_key_parser call; the closures of
\* parse_encoding and parse_flag both build AffixNode::Encoding, and their
\* afx names the ParseErrorType variant of their map_err
call_work(f, w) ==
    CASE f.fn = "bool" -> bool_node(w, f.key, f.afx)
      [] f.fn = "string" -> Ok([tag |-> f.afx, val |-> w])
      [] f.fn = "char" -> char_node(w, f.afx)
      [] f.fn = "int" -> int_node(from_str_int(w, INT_NODE_MAX), w, f.afx)
      [] f.fn = "comment" -> Ok([tag |-> "Comment"])
      [] f.fn = "encoding" -> encoding_node(Encoding_try_from(w), w, f.afx)
      [] f.fn = "chars" -> Ok([tag |-> f.afx, val |-> w])
      [] f.fn = "split" -> Ok([tag |-> f.afx, val |-> split_char(w, "|")])
      [] f.fn = "syllable" -> syllable_node(CompoundSyllable_try_from(w))

\* the AF, AM, BREAK and COMPOUNDRULE rows: no whitespace inside
no_whitespace_row(item) ==
    IF contains_whitespace(item)
    THEN Err([kind |-> "ContainsWhitespace", s |-> item])
    ELSE Ok(item)

\* the MAP rows: chars.next().zip(chars.next())
mapping_row(item) ==
    IF Len(item) >= 2 THEN Ok(<<item[1], item[2]>>)
    ELSE Err([kind |-> "CharCount", s |-> item, expected |-> 2])

\* what the loop of a table closure does with one row: Ok(value) or Err(ctx)
call_row(row, item) ==
    CASE row = "no_whitespace" -> no_whitespace_row(item)
      [] row = "mapping" -> mapping_row(item)
      [] row = "conversion" -> Conversion_from_str(item, FALSE)
      [] row = "phonetic" -> Phonetic_try_from(item)
      [] row = "compound_pattern" -> CompoundPattern_try_from(item)

\* rows_node with the elements in the reverse order of the rows
rows_node_reversed(rs, afx, bad) ==
    IF bad = 0
    THEN Ok([tag |-> afx, val |-> [i \in 1..Len(rs) |-> rs[Len(rs) + 1 - i].val]])
    ELSE Err(ParseError_new(rs[bad].err, bad, 0))

\* the node of the validated rows rs, or the error of the first failing row
\* i (0-based) as ParseError::new(ctx, i + 1, 0)
rows_node(rs, afx, bad) ==
    IF bad = 0
    THEN Ok([tag |-> afx, val |-> [i \in 1..Len(rs) |-> rs[i].val]])
    ELSE Err(ParseError_new(rs[bad].err, bad, 0))

rows_checked(rs, afx) ==
    rows_node(rs, afx, FirstOf({i \in 1..Len(rs) : ~rs[i].ok}))

\* f(ret), for the closure f of a table_parser call: the loop over the rows
\* stops at the first Err
validate_rows(v, f) ==
    rows_checked([i \in 1..Len(v) |-> call_row(f.row, v[i])], f.afx)

(***************************************************************************)
(* Payload coercers                                                        *)
(***************************************************************************)

\* line_key_parser's map: Some((n, residual, 0)) for f(work) = Ok(n)
line_key_node(r, residual) ==
    IF r.ok THEN ResSome(r.val, residual, 0) ELSE ResErr(r.err)

line_key_split(sp, f) ==
    IF "tag" \in DOMAIN sp THEN sp
    ELSE IF ~sp.found THEN ResNone
    ELSE line_key_node(call_work(f, sp.work), sp.residual)

\* line_key_parser: anything from a key to the end of the line
line_key_parser(s, key, f) == line_key_split(line_splitter(s, key), f)

bool_parser(s, key, afx) == line_key_parser(s, key, closure("bool", afx, key))

string_parser(s, key, afx) ==
    line_key_parser(s, key, closure("string", afx, key))

char_parser(s, key, afx) == line_key_parser(s, key, closure("char", afx, key))

int_parser(s, key, afx) == line_key_parser(s, key, closure("int", afx, key))

(***************************************************************************)
(* Tables                                                                  *)
(***************************************************************************)

\* table_count_err: expected is the declared count, received the rows read
table_count_err(count, i) ==
    ParseError_new([kind |-> "TableCount", expected |-> count, received |-> i],
                   i + 1, 0)

\* table_parser's for loop, for i in 0..count.  table_rows is the head of
\* turn i (residual, nl and rows as the turns before left them), table_row
\* the match on line_splitter's answer sp, table_next the munch_newline m
\* that follows every row but the last.
\* count is the header's count as from_str_int gives it: val the value, big
\* telling that the value is above I32_MAX, and so above every i.
RECURSIVE table_rows(_, _, _, _, _, _)
RECURSIVE table_row(_, _, _, _, _, _)
RECURSIVE table_next(_, _, _, _, _, _)

\* table_next without nlines += 1 after the munch_newline of a row
table_next_uncounted(m, key, count, i, nl, rows) ==
    CASE m.tag \in {"Err", "Abort"} -> m
      [] m.tag = "None" -> ResErr(table_count_err(count.val, i))
      [] OTHER -> table_rows(m.rest, key, count, i + 1, nl, rows)

table_next(m, key, count, i, nl, rows) ==
    CASE m.tag \in {"Err", "Abort"} -> m
      [] m.tag = "None" -> ResErr(table_count_err(count.val, i))
      [] OTHER -> table_rows(m.rest, key, count, i + 1, nl + 1, rows)

table_row(sp, key, count, i, nl, rows) ==
    IF "tag" \in DOMAIN sp THEN sp
    ELSE IF ~sp.found THEN ResErr(table_count_err(count.val, i))
    ELSE IF count.big \/ i < count.val - 1
    THEN table_next(munch_newline(sp.residual), key, count, i, nl,
                    Append(rows, sp.work))
    ELSE table_rows(sp.residual, key, count, i + 1, nl, Append(rows, sp.work))

table_rows(residual, key, count, i, nl, rows) ==
    IF ~count.big /\ i >= count.val
    THEN [tag |-> "Some", rows |-> rows, residual |-> residual, nl |-> nl]
    ELSE table_row(line_splitter(residual, key), key, count, i, nl, rows)

\* f(ret).map(|n| Some((n, residual, nlines)))
table_node(r, body) ==
    IF r.ok THEN ResSome(r.val, body.residual, body.nl) ELSE ResErr(r.err)

table_finish(body, f) ==
    IF body.tag # "Some" THEN body
    ELSE table_node(validate_rows(body.rows, f), body)

\* the munch_newline m after the header, then the rows
table_body(m, count, key, f) ==
    CASE m.tag \in {"Err", "Abort"} -> m
      [] m.tag = "None" -> ResErr(table_count_err(count.val, 0))
      [] OTHER -> table_finish(table_rows(m.rest, key, count, 0, 1, <<>>), f)

table_header(sp, count, key, f) ==
    IF ~count.ok THEN ResErr(new_nospan([kind |-> "BadInt", s |-> sp.work]))
    ELSE table_body(munch_newline(sp.residual), count, key, f)

table_split(sp, key, f) ==
    IF "tag" \in DOMAIN sp THEN sp
    ELSE IF ~sp.found THEN ResNone
    ELSE table_header(sp, from_str_int(sp.work, U32_MAX), key, f)

\* table_parser: KEY N, then N lines KEY row; f turns the rows into the node
table_parser(s, key, f) == table_split(line_splitter(s, key), key, f)

(***************************************************************************)
(* Rule groups (PFX / SFX)                                                 *)
(***************************************************************************)

PFX == <<"P", "F", "X">>
SFX == <<"S", "F", "X">>

AllWord(s) == s # <<>> /\ \A i \in 1..Len(s) : IsWord(s[i])
AllDigit(s) == s # <<>> /\ \A i \in 1..Len(s) : IsDigit(s[i])

\* the end of the maximal run of \w characters of s that starts at from
\* (from - 1 when s[from] is no \w character)
word_run_end(s, from) ==
    IF \A j \in from..Len(s) : IsWord(s[j]) THEN Len(s)
    ELSE Min({j \in from..Len(s) : ~IsWord(s[j])}) - 1

header_groups(work, e1, e2) ==
    IF /\ e1 >= 1
       /\ e1 + 1 <= Len(work) /\ is_whitespace(work[e1 + 1])
       /\ e2 >= e1 + 2
       /\ e2 + 1 <= Len(work) /\ is_whitespace(work[e2 + 1])
       /\ AllDigit(DropTo(work, e2 + 2))
    THEN [matched |-> TRUE,
          flag |-> SubSeq(work, 1, e1),
          xprod |-> SubSeq(work, e1 + 2, e2),
          num |-> DropTo(work, e2 + 2)]
    ELSE [matched |-> FALSE]

\* RE_AFX_RULE_HEADER, ^(?P<flag>\w+)\s(?P<xprod>\w+)\s(?P<num>\d+)$ : the
\* greedy runs are forced, each \w+ ends where a single \s character follows
RE_AFX_RULE_HEADER_captures(work) ==
    header_groups(work, word_run_end(work, 1),
                  word_run_end(work, word_run_end(work, 1) + 2))

\* the match of RE_AFX_RULE_BODY with the tokens toks of content, which
\* begin at the positions begins: ^ wants the first token at the start of
\* content and the first two tokens are \w+.  After condition, \s+ is
\* greedy and gives back: with a fifth token, morph is the text from that
\* token to the end, and its . takes no "\n"; with four tokens, either
\* content ends there ($, no morph), or two or more whitespace characters
\* follow, \s+ keeps all but the last and morph is the last one, no "\n".
body_groups(content, toks, begins) ==
    IF /\ Len(toks) >= 4
       /\ 1 \in begins
       /\ AllWord(toks[1]) /\ AllWord(toks[2])
       /\ IF Len(toks) >= 5
          THEN \A j \in NthOf(begins, 5)..Len(content) : content[j] # "\n"
          ELSE \/ token_end(content, NthOf(begins, 4)) = Len(content)
               \/ /\ token_end(content, NthOf(begins, 4)) <= Len(content) - 2
                  /\ content[Len(content)] # "\n"
    THEN [matched |-> TRUE,
          flag |-> toks[1], strip_chars |-> toks[2],
          affix |-> toks[3], condition |-> toks[4],
          has_morph |-> Len(toks) >= 5 \/ is_whitespace(content[Len(content)]),
          morph |-> SubSeq(toks, 5, Len(toks))]
    ELSE [matched |-> FALSE]

\* RE_AFX_RULE_BODY.captures(content),
\*   ^(?P<flag>\w+)\s+(?P<strip_chars>\w+)\s+(?P<affix>\S+)\s+(?P<condition>\S+)
\*    (?:$|\s+(?P<morph>.+)$)
\* the tokens are the maximal runs of \S characters; morph is given by its
\* tokens, which is how parse_morph_info reads it (split_whitespace)
RE_AFX_RULE_BODY_captures(content) ==
    body_groups(content, split_whitespace(content), token_begins(content))

\* the simple lowercase mappings of char::to_lowercase, as the standard
\* library of Rust 1.95 holds them (Unicode 17.0): each
\* <<first, last, step, delta>> maps the characters first, first + step,
\* .. last to the character delta further on
LOWERCASE == <<
    <<65, 90, 1, 32>>, <<192, 214, 1, 32>>, <<216, 222, 1, 32>>,
    <<256, 302, 2, 1>>, <<306, 310, 2, 1>>, <<313, 327, 2, 1>>,
    <<330, 374, 2, 1>>, <<376, 376, 1, -121>>, <<377, 381, 2, 1>>,
    <<385, 385, 1, 210>>, <<386, 388, 2, 1>>, <<390, 390, 1, 206>>,
    <<391, 391, 1, 1>>, <<393, 394, 1, 205>>, <<395, 395, 1, 1>>,
    <<398, 398, 1, 79>>, <<399, 399, 1, 202>>, <<400, 400, 1, 203>>,
    <<401, 401, 1, 1>>, <<403, 403, 1, 205>>, <<404, 404, 1, 207>>,
    <<406, 406, 1, 211>>, <<407, 407, 1, 209>>, <<408, 408, 1, 1>>,
    <<412, 412, 1, 211>>, <<413, 413, 1, 213>>, <<415, 415, 1, 214>>,
    <<416, 420, 2, 1>>, <<422, 422, 1, 218>>, <<423, 423, 1, 1>>,
    <<425, 425, 1, 218>>, <<428, 428, 1, 1>>, <<430, 430, 1, 218>>,
    <<431, 431, 1, 1>>, <<433, 434, 1, 217>>, <<435, 437, 2, 1>>,
    <<439, 439, 1, 219>>, <<440, 440, 1, 1>>, <<444, 444, 1, 1>>,
    <<452, 452, 1, 2>>, <<453, 453, 1, 1>>, <<455, 455, 1, 2>>,
    <<456, 456, 1, 1>>, <<458, 458, 1, 2>>, <<459, 475, 2, 1>>,
    <<478, 494, 2, 1>>, <<497, 497, 1, 2>>, <<498, 500, 2, 1>>,
    <<502, 502, 1, -97>>, <<503, 503, 1, -56>>, <<504, 542, 2, 1>>,
    <<544, 544, 1, -130>>, <<546, 562, 2, 1>>, <<570, 570, 1, 10795>>,
    <<571, 571, 1, 1>>, <<573, 573, 1, -163>>, <<574, 574, 1, 10792>>,
    <<577, 577, 1, 1>>, <<579, 579, 1, -195>>, <<580, 580, 1, 69>>,
    <<581, 581, 1, 71>>, <<582, 590, 2, 1>>, <<880, 882, 2, 1>>,
    <<886, 886, 1, 1>>, <<895, 895, 1, 116>>, <<902, 902, 1, 38>>,
    <<904, 906, 1, 37>>, <<908, 908, 1, 64>>, <<910, 911, 1, 63>>,
    <<913, 929, 1, 32>>, <<932, 939, 1, 32>>, <<975, 975, 1, 8>>,
    <<984, 1006, 2, 1>>, <<1012, 1012, 1, -60>>, <<1015, 1015, 1, 1>>,
    <<1017, 1017, 1, -7>>, <<1018, 1018, 1, 1>>, <<1021, 1023, 1, -130>>,
    <<1024, 1039, 1, 80>>, <<1040, 1071, 1, 32>>, <<1120, 1152, 2, 1>>,
    <<1162, 1214, 2, 1>>, <<1216, 1216, 1, 15>>, <<1217, 1229, 2, 1>>,
    <<1232, 1326, 2, 1>>, <<1329, 1366, 1, 48>>, <<4256, 4293, 1, 7264>>,
    <<4295, 4295, 1, 7264>>, <<4301, 4301, 1, 7264>>,
    <<5024, 5103, 1, 38864>>, <<5104, 5109, 1, 8>>, <<7305, 7305, 1, 1>>,
    <<7312, 7354, 1, -3008>>, <<7357, 7359, 1, -3008>>, <<7680, 7828, 2, 1>>,
    <<7838, 7838, 1, -7615>>, <<7840, 7934, 2, 1>>, <<7944, 7951, 1, -8>>,
    <<7960, 7965, 1, -8>>, <<7976, 7983, 1, -8>>, <<7992, 7999, 1, -8>>,
    <<8008, 8013, 1, -8>>, <<8025, 8031, 2, -8>>, <<8040, 8047, 1, -8>>,
    <<8072, 8079, 1, -8>>, <<8088, 8095, 1, -8>>, <<8104, 8111, 1, -8>>,
    <<8120, 8121, 1, -8>>, <<8122, 8123, 1, -74>>, <<8124, 8124, 1, -9>>,
    <<8136, 8139, 1, -86>>, <<8140, 8140, 1, -9>>, <<8152, 8153, 1, -8>>,
    <<8154, 8155, 1, -100>>, <<8168, 8169, 1, -8>>, <<8170, 8171, 1, -112>>,
    <<8172, 8172, 1, -7>>, <<8184, 8185, 1, -128>>, <<8186, 8187, 1, -126>>,
    <<8188, 8188, 1, -9>>, <<8486, 8486, 1, -7517>>,
    <<8490, 8490, 1, -8383>>, <<8491, 8491, 1, -8262>>,
    <<8498, 8498, 1, 28>>, <<8544, 8559, 1, 16>>, <<8579, 8579, 1, 1>>,
    <<9398, 9423, 1, 26>>, <<11264, 11311, 1, 48>>, <<11360, 11360, 1, 1>>,
    <<11362, 11362, 1, -10743>>, <<11363, 11363, 1, -3814>>,
    <<11364, 11364, 1, -10727>>, <<11367, 11371, 2, 1>>,
    <<11373, 11373, 1, -10780>>, <<11374, 11374, 1, -10749>>,
    <<11375, 11375, 1, -10783>>, <<11376, 11376, 1, -10782>>,
    <<11378, 11378, 1, 1>>, <<11381, 11381, 1, 1>>,
    <<11390, 11391, 1, -10815>>, <<11392, 11490, 2, 1>>,
    <<11499, 11501, 2, 1>>, <<11506, 11506, 1, 1>>, <<42560, 42604, 2, 1>>,
    <<42624, 42650, 2, 1>>, <<42786, 42798, 2, 1>>, <<42802, 42862, 2, 1>>,
    <<42873, 42875, 2, 1>>, <<42877, 42877, 1, -35332>>,
    <<42878, 42886, 2, 1>>, <<42891, 42891, 1, 1>>,
    <<42893, 42893, 1, -42280>>, <<42896, 42898, 2, 1>>,
    <<42902, 42920, 2, 1>>, <<42922, 42922, 1, -42308>>,
    <<42923, 42923, 1, -42319>>, <<42924, 42924, 1, -42315>>,
    <<42925, 42925, 1, -42305>>, <<42926, 42926, 1, -42308>>,
    <<42928, 42928, 1, -42258>>, <<42929, 42929, 1, -42282>>,
    <<42930, 42930, 1, -42261>>, <<42931, 42931, 1, 928>>,
    <<42932, 42946, 2, 1>>, <<42948, 42948, 1, -48>>,
    <<42949, 42949, 1, -42307>>, <<42950, 42950, 1, -35384>>,
    <<42951, 42953, 2, 1>>, <<42955, 42955, 1, -42343>>,
    <<42956, 42970, 2, 1>>, <<42972, 42972, 1, -42561>>,
    <<42997, 42997, 1, 1>>, <<65313, 65338, 1, 32>>, <<66560, 66599, 1, 40>>,
    <<66736, 66771, 1, 40>>, <<66928, 66938, 1, 39>>,
    <<66940, 66954, 1, 39>>, <<66956, 66962, 1, 39>>,
    <<66964, 66965, 1, 39>>, <<68736, 68786, 1, 64>>,
    <<68944, 68965, 1, 32>>, <<71840, 71871, 1, 32>>,
    <<93760, 93791, 1, 32>>, <<93856, 93880, 1, 27>>,
    <<125184, 125217, 1, 34>> >>

\* the property Cased (Unicode 17.0)
CASED == <<
    <<65, 90>>, <<97, 122>>, <<170, 170>>, <<181, 181>>, <<186, 186>>,
    <<192, 214>>, <<216, 246>>, <<248, 442>>, <<444, 447>>, <<452, 659>>,
    <<662, 696>>, <<704, 705>>, <<736, 740>>, <<837, 837>>, <<880, 883>>,
    <<886, 887>>, <<890, 893>>, <<895, 895>>, <<902, 902>>, <<904, 906>>,
    <<908, 908>>, <<910, 929>>, <<931, 1013>>, <<1015, 1153>>,
    <<1162, 1327>>, <<1329, 1366>>, <<1376, 1416>>, <<4256, 4293>>,
    <<4295, 4295>>, <<4301, 4301>>, <<4304, 4346>>, <<4348, 4351>>,
    <<5024, 5109>>, <<5112, 5117>>, <<7296, 7306>>, <<7312, 7354>>,
    <<7357, 7359>>, <<7424, 7615>>, <<7680, 7957>>, <<7960, 7965>>,
    <<7968, 8005>>, <<8008, 8013>>, <<8016, 8023>>, <<8025, 8025>>,
    <<8027, 8027>>, <<8029, 8029>>, <<8031, 8061>>, <<8064, 8116>>,
    <<8118, 8124>>, <<8126, 8126>>, <<8130, 8132>>, <<8134, 8140>>,
    <<8144, 8147>>, <<8150, 8155>>, <<8160, 8172>>, <<8178, 8180>>,
    <<8182, 8188>>, <<8305, 8305>>, <<8319, 8319>>, <<8336, 8348>>,
    <<8450, 8450>>, <<8455, 8455>>, <<8458, 8467>>, <<8469, 8469>>,
    <<8473, 8477>>, <<8484, 8484>>, <<8486, 8486>>, <<8488, 8488>>,
    <<8490, 8493>>, <<8495, 8500>>, <<8505, 8505>>, <<8508, 8511>>,
    <<8517, 8521>>, <<8526, 8526>>, <<8544, 8575>>, <<8579, 8580>>,
    <<9398, 9449>>, <<11264, 11492>>, <<11499, 11502>>, <<11506, 11507>>,
    <<11520, 11557>>, <<11559, 11559>>, <<11565, 11565>>, <<42560, 42605>>,
    <<42624, 42653>>, <<42786, 42887>>, <<42891, 42894>>, <<42896, 42972>>,
    <<42993, 42998>>, <<43000, 43002>>, <<43824, 43866>>, <<43868, 43881>>,
    <<43888, 43967>>, <<64256, 64262>>, <<64275, 64279>>, <<65313, 65338>>,
    <<65345, 65370>>, <<66560, 66639>>, <<66736, 66771>>, <<66776, 66811>>,
    <<66928, 66938>>, <<66940, 66954>>, <<66956, 66962>>, <<66964, 66965>>,
    <<66967, 66977>>, <<66979, 66993>>, <<66995, 67001>>, <<67003, 67004>>,
    <<67456, 67456>>, <<67459, 67461>>, <<67463, 67504>>, <<67506, 67514>>,
    <<68736, 68786>>, <<68800, 68850>>, <<68944, 68965>>, <<68976, 68997>>,
    <<71840, 71903>>, <<93760, 93823>>, <<93856, 93880>>, <<93883, 93907>>,
    <<119808, 119892>>, <<119894, 119964>>, <<119966, 119967>>,
    <<119970, 119970>>, <<119973, 119974>>, <<119977, 119980>>,
    <<119982, 119993>>, <<119995, 119995>>, <<119997, 120003>>,
    <<120005, 120069>>, <<120071, 120074>>, <<120077, 120084>>,
    <<120086, 120092>>, <<120094, 120121>>, <<120123, 120126>>,
    <<120128, 120132>>, <<120134, 120134>>, <<120138, 120144>>,
    <<120146, 120485>>, <<120488, 120512>>, <<120514, 120538>>,
    <<120540, 120570>>, <<120572, 120596>>, <<120598, 120628>>,
    <<120630, 120654>>, <<120656, 120686>>, <<120688, 120712>>,
    <<120714, 120744>>, <<120746, 120770>>, <<120772, 120779>>,
    <<122624, 122633>>, <<122635, 122654>>, <<122661, 122666>>,
    <<122928, 122989>>, <<125184, 125251>>, <<127280, 127305>>,
    <<127312, 127337>>, <<127344, 127369>> >>

\* the property Case_Ignorable (Unicode 17.0)
CASE_IGNORABLE == <<
    <<39, 39>>, <<46, 46>>, <<58, 58>>, <<94, 94>>, <<96, 96>>, <<168, 168>>,
    <<173, 173>>, <<175, 175>>, <<180, 180>>, <<183, 184>>, <<688, 879>>,
    <<884, 885>>, <<890, 890>>, <<900, 901>>, <<903, 903>>, <<1155, 1161>>,
    <<1369, 1369>>, <<1375, 1375>>, <<1425, 1469>>, <<1471, 1471>>,
    <<1473, 1474>>, <<1476, 1477>>, <<1479, 1479>>, <<1524, 1524>>,
    <<1536, 1541>>, <<1552, 1562>>, <<1564, 1564>>, <<1600, 1600>>,
    <<1611, 1631>>, <<1648, 1648>>, <<1750, 1757>>, <<1759, 1768>>,
    <<1770, 1773>>, <<1807, 1807>>, <<1809, 1809>>, <<1840, 1866>>,
    <<1958, 1968>>, <<2027, 2037>>, <<2042, 2042>>, <<2045, 2045>>,
    <<2070, 2093>>, <<2137, 2139>>, <<2184, 2184>>, <<2192, 2193>>,
    <<2199, 2207>>, <<2249, 2306>>, <<2362, 2362>>, <<2364, 2364>>,
    <<2369, 2376>>, <<2381, 2381>>, <<2385, 2391>>, <<2402, 2403>>,
    <<2417, 2417>>, <<2433, 2433>>, <<2492, 2492>>, <<2497, 2500>>,
    <<2509, 2509>>, <<2530, 2531>>, <<2558, 2558>>, <<2561, 2562>>,
    <<2620, 2620>>, <<2625, 2626>>, <<2631, 2632>>, <<2635, 2637>>,
    <<2641, 2641>>, <<2672, 2673>>, <<2677, 2677>>, <<2689, 2690>>,
    <<2748, 2748>>, <<2753, 2757>>, <<2759, 2760>>, <<2765, 2765>>,
    <<2786, 2787>>, <<2810, 2815>>, <<2817, 2817>>, <<2876, 2876>>,
    <<2879, 2879>>, <<2881, 2884>>, <<2893, 2893>>, <<2901, 2902>>,
    <<2914, 2915>>, <<2946, 2946>>, <<3008, 3008>>, <<3021, 3021>>,
    <<3072, 3072>>, <<3076, 3076>>, <<3132, 3132>>, <<3134, 3136>>,
    <<3142, 3144>>, <<3146, 3149>>, <<3157, 3158>>, <<3170, 3171>>,
    <<3201, 3201>>, <<3260, 3260>>, <<3263, 3263>>, <<3270, 3270>>,
    <<3276, 3277>>, <<3298, 3299>>, <<3328, 3329>>, <<3387, 3388>>,
    <<3393, 3396>>, <<3405, 3405>>, <<3426, 3427>>, <<3457, 3457>>,
    <<3530, 3530>>, <<3538, 3540>>, <<3542, 3542>>, <<3633, 3633>>,
    <<3636, 3642>>, <<3654, 3662>>, <<3761, 3761>>, <<3764, 3772>>,
    <<3782, 3782>>, <<3784, 3790>>, <<3864, 3865>>, <<3893, 3893>>,
    <<3895, 3895>>, <<3897, 3897>>, <<3953, 3966>>, <<3968, 3972>>,
    <<3974, 3975>>, <<3981, 3991>>, <<3993, 4028>>, <<4038, 4038>>,
    <<4141, 4144>>, <<4146, 4151>>, <<4153, 4154>>, <<4157, 4158>>,
    <<4184, 4185>>, <<4190, 4192>>, <<4209, 4212>>, <<4226, 4226>>,
    <<4229, 4230>>, <<4237, 4237>>, <<4253, 4253>>, <<4348, 4348>>,
    <<4957, 4959>>, <<5906, 5908>>, <<5938, 5939>>, <<5970, 5971>>,
    <<6002, 6003>>, <<6068, 6069>>, <<6071, 6077>>, <<6086, 6086>>,
    <<6089, 6099>>, <<6103, 6103>>, <<6109, 6109>>, <<6155, 6159>>,
    <<6211, 6211>>, <<6277, 6278>>, <<6313, 6313>>, <<6432, 6434>>,
    <<6439, 6440>>, <<6450, 6450>>, <<6457, 6459>>, <<6679, 6680>>,
    <<6683, 6683>>, <<6742, 6742>>, <<6744, 6750>>, <<6752, 6752>>,
    <<6754, 6754>>, <<6757, 6764>>, <<6771, 6780>>, <<6783, 6783>>,
    <<6823, 6823>>, <<6832, 6877>>, <<6880, 6891>>, <<6912, 6915>>,
    <<6964, 6964>>, <<6966, 6970>>, <<6972, 6972>>, <<6978, 6978>>,
    <<7019, 7027>>, <<7040, 7041>>, <<7074, 7077>>, <<7080, 7081>>,
    <<7083, 7085>>, <<7142, 7142>>, <<7144, 7145>>, <<7149, 7149>>,
    <<7151, 7153>>, <<7212, 7219>>, <<7222, 7223>>, <<7288, 7293>>,
    <<7376, 7378>>, <<7380, 7392>>, <<7394, 7400>>, <<7405, 7405>>,
    <<7412, 7412>>, <<7416, 7417>>, <<7468, 7530>>, <<7544, 7544>>,
    <<7579, 7679>>, <<8125, 8125>>, <<8127, 8129>>, <<8141, 8143>>,
    <<8157, 8159>>, <<8173, 8175>>, <<8189, 8190>>, <<8203, 8207>>,
    <<8216, 8217>>, <<8228, 8228>>, <<8231, 8231>>, <<8234, 8238>>,
    <<8288, 8292>>, <<8294, 8303>>, <<8305, 8305>>, <<8319, 8319>>,
    <<8336, 8348>>, <<8400, 8432>>, <<11388, 11389>>, <<11503, 11505>>,
    <<11631, 11631>>, <<11647, 11647>>, <<11744, 11775>>, <<11823, 11823>>,
    <<12293, 12293>>, <<12330, 12333>>, <<12337, 12341>>, <<12347, 12347>>,
    <<12441, 12446>>, <<12540, 12542>>, <<40981, 40981>>, <<42232, 42237>>,
    <<42508, 42508>>, <<42607, 42610>>, <<42612, 42621>>, <<42623, 42623>>,
    <<42652, 42655>>, <<42736, 42737>>, <<42752, 42785>>, <<42864, 42864>>,
    <<42888, 42890>>, <<42993, 42996>>, <<43000, 43001>>, <<43010, 43010>>,
    <<43014, 43014>>, <<43019, 43019>>, <<43045, 43046>>, <<43052, 43052>>,
    <<43204, 43205>>, <<43232, 43249>>, <<43263, 43263>>, <<43302, 43309>>,
    <<43335, 43345>>, <<43392, 43394>>, <<43443, 43443>>, <<43446, 43449>>,
    <<43452, 43453>>, <<43471, 43471>>, <<43493, 43494>>, <<43561, 43566>>,
    <<43569, 43570>>, <<43573, 43574>>, <<43587, 43587>>, <<43596, 43596>>,
    <<43632, 43632>>, <<43644, 43644>>, <<43696, 43696>>, <<43698, 43700>>,
    <<43703, 43704>>, <<43710, 43711>>, <<43713, 43713>>, <<43741, 43741>>,
    <<43756, 43757>>, <<43763, 43764>>, <<43766, 43766>>, <<43867, 43871>>,
    <<43881, 43883>>, <<44005, 44005>>, <<44008, 44008>>, <<44013, 44013>>,
    <<64286, 64286>>, <<64434, 64450>>, <<65024, 65039>>, <<65043, 65043>>,
    <<65056, 65071>>, <<65106, 65106>>, <<65109, 65109>>, <<65279, 65279>>,
    <<65287, 65287>>, <<65294, 65294>>, <<65306, 65306>>, <<65342, 65342>>,
    <<65344, 65344>>, <<65392, 65392>>, <<65438, 65439>>, <<65507, 65507>>,
    <<65529, 65531>>, <<66045, 66045>>, <<66272, 66272>>, <<66422, 66426>>,
    <<67456, 67461>>, <<67463, 67504>>, <<67506, 67514>>, <<68097, 68099>>,
    <<68101, 68102>>, <<68108, 68111>>, <<68152, 68154>>, <<68159, 68159>>,
    <<68325, 68326>>, <<68900, 68903>>, <<68942, 68942>>, <<68969, 68973>>,
    <<68975, 68975>>, <<69291, 69292>>, <<69317, 69317>>, <<69370, 69375>>,
    <<69446, 69456>>, <<69506, 69509>>, <<69633, 69633>>, <<69688, 69702>>,
    <<69744, 69744>>, <<69747, 69748>>, <<69759, 69761>>, <<69811, 69814>>,
    <<69817, 69818>>, <<69821, 69821>>, <<69826, 69826>>, <<69837, 69837>>,
    <<69888, 69890>>, <<69927, 69931>>, <<69933, 69940>>, <<70003, 70003>>,
    <<70016, 70017>>, <<70070, 70078>>, <<70089, 70092>>, <<70095, 70095>>,
    <<70191, 70193>>, <<70196, 70196>>, <<70198, 70199>>, <<70206, 70206>>,
    <<70209, 70209>>, <<70367, 70367>>, <<70371, 70378>>, <<70400, 70401>>,
    <<70459, 70460>>, <<70464, 70464>>, <<70502, 70508>>, <<70512, 70516>>,
    <<70587, 70592>>, <<70606, 70606>>, <<70608, 70608>>, <<70610, 70610>>,
    <<70625, 70626>>, <<70712, 70719>>, <<70722, 70724>>, <<70726, 70726>>,
    <<70750, 70750>>, <<70835, 70840>>, <<70842, 70842>>, <<70847, 70848>>,
    <<70850, 70851>>, <<71090, 71093>>, <<71100, 71101>>, <<71103, 71104>>,
    <<71132, 71133>>, <<71219, 71226>>, <<71229, 71229>>, <<71231, 71232>>,
    <<71339, 71339>>, <<71341, 71341>>, <<71344, 71349>>, <<71351, 71351>>,
    <<71453, 71453>>, <<71455, 71455>>, <<71458, 71461>>, <<71463, 71467>>,
    <<71727, 71735>>, <<71737, 71738>>, <<71995, 71996>>, <<71998, 71998>>,
    <<72003, 72003>>, <<72148, 72151>>, <<72154, 72155>>, <<72160, 72160>>,
    <<72193, 72202>>, <<72243, 72248>>, <<72251, 72254>>, <<72263, 72263>>,
    <<72273, 72278>>, <<72281, 72283>>, <<72330, 72342>>, <<72344, 72345>>,
    <<72544, 72544>>, <<72546, 72548>>, <<72550, 72550>>, <<72752, 72758>>,
    <<72760, 72765>>, <<72767, 72767>>, <<72850, 72871>>, <<72874, 72880>>,
    <<72882, 72883>>, <<72885, 72886>>, <<73009, 73014>>, <<73018, 73018>>,
    <<73020, 73021>>, <<73023, 73029>>, <<73031, 73031>>, <<73104, 73105>>,
    <<73109, 73109>>, <<73111, 73111>>, <<73177, 73177>>, <<73459, 73460>>,
    <<73472, 73473>>, <<73526, 73530>>, <<73536, 73536>>, <<73538, 73538>>,
    <<73562, 73562>>, <<78896, 78912>>, <<78919, 78933>>, <<90398, 90409>>,
    <<90413, 90415>>, <<92912, 92916>>, <<92976, 92982>>, <<92992, 92995>>,
    <<93504, 93506>>, <<93547, 93548>>, <<94031, 94031>>, <<94095, 94111>>,
    <<94176, 94177>>, <<94179, 94180>>, <<94194, 94195>>, <<110576, 110579>>,
    <<110581, 110587>>, <<110589, 110590>>, <<113821, 113822>>,
    <<113824, 113827>>, <<118528, 118573>>, <<118576, 118598>>,
    <<119143, 119145>>, <<119155, 119170>>, <<119173, 119179>>,
    <<119210, 119213>>, <<119362, 119364>>, <<121344, 121398>>,
    <<121403, 121452>>, <<121461, 121461>>, <<121476, 121476>>,
    <<121499, 121503>>, <<121505, 121519>>, <<122880, 122886>>,
    <<122888, 122904>>, <<122907, 122913>>, <<122915, 122916>>,
    <<122918, 122922>>, <<122928, 122989>>, <<123023, 123023>>,
    <<123184, 123197>>, <<123566, 123566>>, <<123628, 123631>>,
    <<124139, 124143>>, <<124398, 124399>>, <<124643, 124643>>,
    <<124646, 124646>>, <<124654, 124655>>, <<124661, 124661>>,
    <<124671, 124671>>, <<125136, 125142>>, <<125252, 125259>>,
    <<127995, 127999>>, <<917505, 917505>>, <<917536, 917631>>,
    <<917760, 917999>> >>

\* case_ignorable_then_cased: the first character of s from position i on,
\* going by dir (1 forwards, -1 backwards), that is not case-ignorable is
\* there and is cased
RECURSIVE case_ignorable_then_cased(_, _, _)
case_ignorable_then_cased(s, i, dir) ==
    IF i < 1 \/ i > Len(s) THEN FALSE
    ELSE IF in_ranges(scalar(s[i]), CASE_IGNORABLE)
    THEN case_ignorable_then_cased(s, i + dir, dir)
    ELSE in_ranges(scalar(s[i]), CASED)

\* the lowercase of the character at position i of s, whose simple mapping
\* is the row run of LOWERCASE (0 for none); the capital sigma U+03A3 goes
\* by map_uppercase_sigma, final when a cased character stands before it
\* and none after it
lowercase_at(s, i, run) ==
    IF scalar(s[i]) = 931
    THEN IF /\ case_ignorable_then_cased(s, i - 1, -1)
            /\ ~case_ignorable_then_cased(s, i + 1, 1)
         THEN <<"U+03C2">> ELSE <<"U+03C3">>
    ELSE IF scalar(s[i]) = 304 THEN <<"i", "U+0307">>
    ELSE IF run # 0 THEN <<name_of(scalar(s[i]) + LOWERCASE[run][4])>>
    ELSE <<s[i]>>

RECURSIVE lowercase_to(_, _)
lowercase_to(s, i) ==
    IF i = 0 THEN <<>>
    ELSE lowercase_to(s, i - 1) \o
         lowercase_at(s, i,
            FirstOf({k \in 1..Len(LOWERCASE) :
                        /\ LOWERCASE[k][1] <= scalar(s[i])
                        /\ scalar(s[i]) <= LOWERCASE[k][2]
                        /\ (scalar(s[i]) - LOWERCASE[k][1]) % LOWERCASE[k][3]
                             = 0}))

\* str::to_lowercase
to_lowercase(s) == lowercase_to(s, Len(s))

\* xprod_of comparing the token itself, not its lowercase form
xprod_case_sensitive(s, lower) ==
    IF s = <<"y">> THEN Ok(TRUE)
    ELSE IF s = <<"n">> THEN Ok(FALSE)
    ELSE Err(new_nospan([kind |-> "AffixCrossProduct", s |-> s]))

xprod_of(s, lower) ==
    IF lower = <<"y">> THEN Ok(TRUE)
    ELSE IF lower = <<"n">> THEN Ok(FALSE)
    ELSE Err(new_nospan([kind |-> "AffixCrossProduct", s |-> s]))

\* Convert Y or N cross product identifiers
parse_xprod(s) == xprod_of(s, to_lowercase(s))

morph_infos(rs, nl, bad) ==
    IF bad = 0 THEN Ok([i \in 1..Len(rs) |-> rs[i].val])
    ELSE Err(ParseError_new(rs[bad].err, nl, 0))

morph_checked(rs, nl) ==
    morph_infos(rs, nl, FirstOf({i \in 1..Len(rs) : ~rs[i].ok}))

\* parse_morph_info on the tokens of s.split_whitespace()
parse_morph_info(toks, nl) ==
    morph_checked([i \in 1..Len(toks) |-> MorphInfo_try_from(toks[i])], nl)

\* the AffixRule of a row that passed the flag check
affix_rule_of(line_groups, morph_info) ==
    IF line_groups.has_morph /\ ~morph_info.ok THEN morph_info
    ELSE Ok([stripping_chars |->
                 IF line_groups.strip_chars = <<"0">> THEN None
                 ELSE Some(line_groups.strip_chars),
             affix |-> line_groups.affix,
             condition |->
                 IF line_groups.condition = <<".">> THEN None
                 ELSE Some(line_groups.condition),
             morph_info |->
                 IF line_groups.has_morph THEN Some(morph_info.val) ELSE None])

\* affix_rule_checked without the comparison of the row's flag
affix_rule_any_flag(line_groups, content, flag, nl) ==
    IF ~line_groups.matched
    THEN Err(ParseError_new([kind |-> "AffixBody", s |-> content], nl, 0))
    ELSE affix_rule_of(line_groups, parse_morph_info(line_groups.morph, nl))

\* affix_rule_checked quoting the row's flag instead of the row's text
affix_rule_quoting_flag(line_groups, content, flag, nl) ==
    IF ~line_groups.matched
    THEN Err(ParseError_new([kind |-> "AffixBody", s |-> content], nl, 0))
    ELSE IF line_groups.flag # flag
    THEN Err(ParseError_new([kind |-> "AffixFlagMismatch",
                             s |-> line_groups.flag, flag |-> flag], nl, 0))
    ELSE affix_rule_of(line_groups, parse_morph_info(line_groups.morph, nl))

\* the body grammar and the flag check of a row, nl lines into the group
affix_rule_checked(line_groups, content, flag, nl) ==
    IF ~line_groups.matched
    THEN Err(ParseError_new([kind |-> "AffixBody", s |-> content], nl, 0))
    ELSE IF line_groups.flag # flag
    THEN Err(ParseError_new([kind |-> "AffixFlagMismatch",
                             s |-> content, flag |-> flag], nl, 0))
    ELSE affix_rule_of(line_groups, parse_morph_info(line_groups.morph, nl))

\* One turn of affix_table_parser's loop on the row text content
affix_rule(content, flag, nl) ==
    affix_rule_checked(RE_AFX_RULE_BODY_captures(content), content, flag, nl)

\* affix_table_parser's for loop, for i in 0..count, laid out as table_rows
RECURSIVE affix_rows(_, _, _, _, _, _, _)
RECURSIVE affix_row(_, _, _, _, _, _, _)
RECURSIVE affix_next(_, _, _, _, _, _, _)
RECURSIVE affix_pushed(_, _, _, _, _, _, _, _)

affix_next(m, key, flag, count, i, nl, rules) ==
    CASE m.tag \in {"Err", "Abort"} -> m
      [] m.tag = "None" -> ResErr(table_count_err(count.val, i))
      [] OTHER -> affix_rows(m.rest, key, flag, count, i + 1, nl + 1, rules)

affix_pushed(rule, resid, key, flag, count, i, nl, rules) ==
    IF ~rule.ok THEN ResErr(rule.err)
    ELSE IF count.big \/ i < count.val - 1
    THEN affix_next(munch_newline(resid), key, flag, count, i, nl,
                    Append(rules, rule.val))
    ELSE affix_rows(resid, key, flag, count, i + 1, nl, Append(rules, rule.val))

affix_row(sp, key, flag, count, i, nl, rules) ==
    IF "tag" \in DOMAIN sp THEN sp
    ELSE IF ~sp.found THEN ResErr(table_count_err(count.val, i))
    ELSE affix_pushed(affix_rule(sp.work, flag, nl), sp.residual,
                      key, flag, count, i, nl, rules)

affix_rows(residual, key, flag, count, i, nl, rules) ==
    IF ~count.big /\ i >= count.val
    THEN [tag |-> "Some", rules |-> rules, residual |-> residual, nl |-> nl]
    ELSE affix_row(line_splitter(residual, key), key, flag, count, i, nl, rules)

\* Ok(Some((f(ret), residual, nlines)))
affix_group(body, key, afx, flag, can_combine) ==
    IF body.tag # "Some" THEN body
    ELSE ResSome([tag |-> afx,
                  val |-> [flag |-> flag,
                           kind |-> IF key = PFX THEN "Prefix" ELSE "Suffix",
                           can_combine |-> can_combine,
                           rules |-> body.rules]],
                 body.residual, body.nl)

\* the munch_newline m after the header, then the rows
affix_body(m, key, afx, flag, can_combine, count) ==
    CASE m.tag \in {"Err", "Abort"} -> m
      [] m.tag = "None" -> ResErr(table_count_err(count.val, 0))
      [] OTHER -> affix_group(affix_rows(m.rest, key, flag, count, 0, 1, <<>>),
                              key, afx, flag, can_combine)

\* the header's captures: count is parsed with unwrap(), so a numeral above
\* u32::MAX panics; then the cross product
affix_header(sp, header_caps, count, can_combine, key, afx) ==
    IF ~count.ok THEN ResAbort("affix_table_parser: count unwrap")
    ELSE IF ~can_combine.ok THEN ResErr(can_combine.err)
    ELSE affix_body(munch_newline(sp.residual), key, afx, header_caps.flag,
                    can_combine.val, count)

affix_captured(sp, header_caps, key, afx) ==
    IF ~header_caps.matched
    THEN ResErr(new_nospan([kind |-> "AffixBody", s |-> sp.residual]))
    ELSE affix_header(sp, header_caps, from_str_int(header_caps.num, U32_MAX),
                      parse_xprod(header_caps.xprod), key, afx)

affix_split(sp, key, afx) ==
    IF "tag" \in DOMAIN sp THEN sp
    ELSE IF ~sp.found THEN ResNone
    ELSE affix_captured(sp, RE_AFX_RULE_HEADER_captures(sp.work), key, afx)

\* affix_table_parser: the header KEY flag xprod N, then N rule rows
affix_table_parser(s, key, afx) == affix_split(line_splitter(s, key), key, afx)

(***************************************************************************)
(* The directive parsers                                                   *)
(***************************************************************************)

\* ALL_PARSERS, each parse_* function written as the call it makes: fn is
\* its name, parser the helper it calls, key the key and f the last
\* argument (an AffixNode variant or a closure)
ALL_PARSERS ==
    << [fn |-> "parse_comment", parser |-> "line_key_parser",
        key |-> <<"#">>,
        f |-> closure("comment", "Comment", <<"#">>)],
       [fn |-> "parse_encoding", parser |-> "line_key_parser",
        key |-> <<"S", "E", "T">>,
        f |-> closure("encoding", "Encoding", <<>>)],
       [fn |-> "parse_flag", parser |-> "line_key_parser",
        key |-> <<"F", "L", "A", "G">>,
        f |-> closure("encoding", "Flag", <<>>)],
       [fn |-> "parse_complex_prefixes", parser |-> "bool_parser",
        key |-> <<"C", "O", "M", "P", "L", "E", "X", "P", "R", "E", "F",
                  "I", "X", "E", "S">>,
        f |-> "ComplexPrefixes"],
       [fn |-> "parse_lang", parser |-> "string_parser",
        key |-> <<"L", "A", "N", "G">>,
        f |-> "Language"],
       [fn |-> "parse_ignore_chars", parser |-> "line_key_parser",
        key |-> <<"I", "G", "N", "O", "R", "E">>,
        f |-> closure("chars", "IgnoreChars",
                      <<"I", "G", "N", "O", "R", "E">>)],
       [fn |-> "parse_affix_alias", parser |-> "table_parser",
        key |-> <<"A", "F">>,
        f |-> [afx |-> "AffixAlias", row |-> "no_whitespace"]],
       [fn |-> "parse_morph_alias", parser |-> "table_parser",
        key |-> <<"A", "M">>,
        f |-> [afx |-> "MorphAlias", row |-> "no_whitespace"]],
       [fn |-> "parse_neighbor_keys", parser |-> "line_key_parser",
        key |-> <<"K", "E", "Y">>,
        f |-> closure("split", "NeighborKeys", <<"K", "E", "Y">>)],
       [fn |-> "parse_try_characters", parser |-> "string_parser",
        key |-> <<"T", "R", "Y">>,
        f |-> "TryCharacters"],
       [fn |-> "parse_nosuggest_flag", parser |-> "char_parser",
        key |-> <<"N", "O", "S", "U", "G", "G", "E", "S", "T">>,
        f |-> "NoSuggestFlag"],
       [fn |-> "parse_compound_suggestions_max", parser |-> "int_parser",
        key |-> <<"M", "A", "X", "C", "P", "D", "S", "U", "G", "S">>,
        f |-> "CompoundSugMax"],
       [fn |-> "parse_ngram_suggestions_max", parser |-> "int_parser",
        key |-> <<"M", "A", "X", "N", "G", "R", "A", "M", "S", "U", "G",
                  "S">>,
        f |-> "NGramSugMax"],
       [fn |-> "parse_ngram_diff_max", parser |-> "int_parser",
        key |-> <<"M", "A", "X", "D", "I", "F", "F">>,
        f |-> "NGramDiffMax"],
       [fn |-> "parse_ngram_limit_to_diff_max", parser |-> "bool_parser",
        key |-> <<"O", "N", "L", "Y", "M", "A", "X", "D", "I", "F", "F">>,
        f |-> "NGramLimitToDiffMax"],
       [fn |-> "parse_no_split_suggestions", parser |-> "bool_parser",
        key |-> <<"N", "O", "S", "P", "L", "I", "T", "S", "U", "G", "S">>,
        f |-> "NoSplitSuggestions"],
       [fn |-> "parse_keep_term_dots", parser |-> "bool_parser",
        key |-> <<"S", "U", "G", "S", "W", "I", "T", "H", "D", "O", "T",
                  "S">>,
        f |-> "KeepTermDots"],
       [fn |-> "parse_replacement", parser |-> "table_parser",
        key |-> <<"R", "E", "P">>,
        f |-> [afx |-> "Replacement", row |-> "conversion"]],
       [fn |-> "parse_mapping", parser |-> "table_parser",
        key |-> <<"M", "A", "P">>,
        f |-> [afx |-> "Mapping", row |-> "mapping"]],
       [fn |-> "parse_phonetic", parser |-> "table_parser",
        key |-> <<"P", "H", "O", "N", "E">>,
        f |-> [afx |-> "Phonetic", row |-> "phonetic"]],
       [fn |-> "parse_warn_rare", parser |-> "char_parser",
        key |-> <<"W", "A", "R", "N">>,
        f |-> "WarnRareFlag"],
       [fn |-> "parse_forbidden_warn", parser |-> "bool_parser",
        key |-> <<"F", "O", "R", "B", "I", "D", "W", "A", "R", "N">>,
        f |-> "ForbidWarnWords"],
       [fn |-> "parse_break_separator", parser |-> "table_parser",
        key |-> <<"B", "R", "E", "A", "K">>,
        f |-> [afx |-> "BreakSeparator", row |-> "no_whitespace"]],
       [fn |-> "parse_compound_rule", parser |-> "table_parser",
        key |-> <<"C", "O", "M", "P", "O", "U", "N", "D", "R", "U", "L",
                  "E">>,
        f |-> [afx |-> "BreakSeparator", row |-> "no_whitespace"]],
       [fn |-> "parse_compound_min_length", parser |-> "int_parser",
        key |-> <<"C", "O", "M", "P", "O", "U", "N", "D", "M", "I", "N">>,
        f |-> "CompoundMinLen"],
       [fn |-> "parse_compound_flag", parser |-> "char_parser",
        key |-> <<"C", "O", "M", "P", "O", "U", "N", "D", "F", "L", "A",
                  "G">>,
        f |-> "CompoundFlag"],
       [fn |-> "parse_compound_begin_flag", parser |-> "char_parser",
        key |-> <<"C", "O", "M", "P", "O", "U", "N", "D", "B", "E", "G",
                  "I", "N">>,
        f |-> "CompoundBeginFlag"],
       [fn |-> "parse_compound_end_flag", parser |-> "char_parser",
        key |-> <<"C", "O", "M", "P", "O", "U", "N", "D", "L", "A", "S",
                  "T">>,
        f |-> "CompoundEndFlag"],
       [fn |-> "parse_compound_middle_flag", parser |-> "char_parser",
        key |-> <<"C", "O", "M", "P", "O", "U", "N", "D", "M", "I", "D",
                  "D", "L", "E">>,
        f |-> "CompoundMiddleFlag"],
       [fn |-> "parse_compound_only_flag", parser |-> "char_parser",
        key |-> <<"O", "N", "L", "Y", "I", "N", "C", "O", "M", "P", "O",
                  "U", "N", "D">>,
        f |-> "CompoundOnlyFlag"],
       [fn |-> "parse_compound_permit_flag", parser |-> "char_parser",
        key |-> <<"C", "O", "M", "P", "O", "U", "N", "D", "P", "E", "R",
                  "M", "I", "T", "F", "L", "A", "G">>,
        f |-> "CompoundPermitFlag"],
       [fn |-> "parse_compound_forbid_flag", parser |-> "char_parser",
        key |-> <<"C", "O", "M", "P", "O", "U", "N", "D", "F", "O", "R",
                  "B", "I", "D", "F", "L", "A", "G">>,
        f |-> "CompoundForbidFlag"],
       [fn |-> "parse_compound_more_suffixes", parser |-> "bool_parser",
        key |-> <<"C", "O", "M", "P", "O", "U", "N", "D", "M", "O", "R",
                  "E", "S", "U", "F", "F", "I", "X", "E", "S">>,
        f |-> "CompoundMoreSuffixes"],
       [fn |-> "parse_compound_root", parser |-> "char_parser",
        key |-> <<"C", "O", "M", "P", "O", "U", "N", "D", "R", "O", "O",
                  "T">>,
        f |-> "CompoundRoot"],
       [fn |-> "parse_compound_word_max", parser |-> "int_parser",
        key |-> <<"C", "O", "M", "P", "O", "U", "N", "D", "W", "O", "R",
                  "D", "M", "A", "X">>,
        f |-> "CompoundWordMax"],
       [fn |-> "parse_compound_forbid_duplication", parser |-> "bool_parser",
        key |-> <<"C", "H", "E", "C", "K", "C", "O", "M", "P", "O", "U",
                  "N", "D", "D", "U", "P">>,
        f |-> "CompoundForbidDup"],
       [fn |-> "parse_compound_forbid_repeat", parser |-> "bool_parser",
        key |-> <<"C", "H", "E", "C", "K", "C", "O", "M", "P", "O", "U",
                  "N", "D", "R", "E", "P">>,
        f |-> "CompoundForbidRepeat"],
       [fn |-> "parse_compound_check_case", parser |-> "bool_parser",
        key |-> <<"C", "H", "E", "C", "K", "C", "O", "M", "P", "O", "U",
                  "N", "D", "C", "A", "S", "E">>,
        f |-> "CompoundCheckCase"],
       [fn |-> "parse_compound_check_triple", parser |-> "bool_parser",
        key |-> <<"C", "H", "E", "C", "K", "C", "O", "M", "P", "O", "U",
                  "N", "D", "T", "R", "I", "P", "L", "E">>,
        f |-> "CompoundCheckTriple"],
       [fn |-> "parse_compound_simplify_triple", parser |-> "bool_parser",
        key |-> <<"S", "I", "M", "P", "L", "I", "F", "I", "E", "D", "T",
                  "R", "I", "P", "L", "E">>,
        f |-> "CompoundSimplifyTriple"],
       [fn |-> "parse_compound_forbid_patterns", parser |-> "table_parser",
        key |-> <<"C", "H", "E", "C", "K", "C", "O", "M", "P", "O", "U",
                  "N", "D", "P", "A", "T", "T", "E", "R", "N">>,
        f |-> [afx |-> "CompoundForbidPats", row |-> "compound_pattern"]],
       [fn |-> "parse_compound_force_upper", parser |-> "char_parser",
        key |-> <<"F", "O", "R", "C", "E", "U", "C", "A", "S", "E">>,
        f |-> "CompoundForceUpper"],
       [fn |-> "parse_compound_syllable", parser |-> "line_key_parser",
        key |-> <<"C", "O", "M", "P", "O", "U", "N", "D", "S", "Y", "L",
                  "L", "A", "B", "L", "E">>,
        f |-> closure("syllable", "CompoundSyllable", <<>>)],
       [fn |-> "parse_syllable_num", parser |-> "string_parser",
        key |-> <<"S", "Y", "L", "L", "A", "B", "L", "E", "N", "U", "M">>,
        f |-> "SyllableNum"],
       [fn |-> "parse_prefix", parser |-> "affix_table_parser",
        key |-> <<"P", "F", "X">>,
        f |-> "Prefix"],
       [fn |-> "parse_suffix", parser |-> "affix_table_parser",
        key |-> <<"S", "F", "X">>,
        f |-> "Suffix"],
       [fn |-> "parse_circumfix_flag", parser |-> "char_parser",
        key |-> <<"C", "I", "R", "C", "U", "M", "F", "I", "X">>,
        f |-> "AfxCircumfixFlag"],
       [fn |-> "parse_forbidden_word_flag", parser |-> "char_parser",
        key |-> <<"F", "O", "R", "B", "I", "D", "D", "E", "N", "W", "O",
                  "R", "D">>,
        f |-> "ForbiddenWordFlag"],
       [fn |-> "parse_afx_full_strip", parser |-> "bool_parser",
        key |-> <<"F", "U", "L", "L", "S", "T", "R", "I", "P">>,
        f |-> "AfxFullStrip"],
       [fn |-> "parse_afx_keep_case_flag", parser |-> "char_parser",
        key |-> <<"K", "E", "E", "P", "C", "A", "S", "E">>,
        f |-> "AfxKeepCaseFlag"],
       [fn |-> "parse_afx_input_conversion", parser |-> "table_parser",
        key |-> <<"I", "C", "O", "N", "V">>,
        f |-> [afx |-> "AfxInputConversion", row |-> "conversion"]],
       [fn |-> "parse_afx_output_conversion", parser |-> "table_parser",
        key |-> <<"O", "C", "O", "N", "V">>,
        f |-> [afx |-> "AfxOutputConversion", row |-> "conversion"]],
       [fn |-> "parse_afx_lemma_present_flag", parser |-> "char_parser",
        key |-> <<"L", "E", "M", "M", "A", "_", "P", "R", "E", "S", "E",
                  "N", "T">>,
        f |-> "AfxLemmaPresentFlag"],
       [fn |-> "parse_afx_needed_flag", parser |-> "char_parser",
        key |-> <<"N", "E", "E", "D", "A", "F", "F", "I", "X">>,
        f |-> "AfxNeededFlag"],
       [fn |-> "parse_afx_pseudoroot_flag", parser |-> "char_parser",
        key |-> <<"P", "S", "E", "U", "D", "O", "R", "O", "O", "T">>,
        f |-> "AfxPseudoRootFlag"],
       [fn |-> "parse_afx_substandard_flag", parser |-> "char_parser",
        key |-> <<"S", "U", "B", "S", "T", "A", "N", "D", "A", "R", "D">>,
        f |-> "AfxSubstandardFlag"],
       [fn |-> "parse_afx_word_chars", parser |-> "string_parser",
        key |-> <<"W", "O", "R", "D", "C", "H", "A", "R", "S">>,
        f |-> "AfxWordChars"],
       [fn |-> "parse_afx_check_sharps", parser |-> "bool_parser",
        key |-> <<"C", "H", "E", "C", "K", "S", "H", "A", "R", "P", "S">>,
        f |-> "AfxCheckSharps"],
       [fn |-> "parse_name", parser |-> "string_parser",
        key |-> <<"N", "A", "M", "E">>,
        f |-> "Name"],
       [fn |-> "parse_home", parser |-> "string_parser",
        key |-> <<"H", "O", "M", "E">>,
        f |-> "HomePage"],
       [fn |-> "parse_version", parser |-> "string_parser",
        key |-> <<"V", "E", "R", "S", "I", "O", "N">>,
        f |-> "Version"] >>

\* parse_fn(working) for the entry p of ALL_PARSERS
call_parser(p, s) ==
    CASE p.parser = "line_key_parser" -> line_key_parser(s, p.key, p.f)
      [] p.parser = "bool_parser" -> bool_parser(s, p.key, p.f)
      [] p.parser = "string_parser" -> string_parser(s, p.key, p.f)
      [] p.parser = "char_parser" -> char_parser(s, p.key, p.f)
      [] p.parser = "int_parser" -> int_parser(s, p.key, p.f)
      [] p.parser = "table_parser" -> table_parser(s, p.key, p.f)
      [] p.parser = "affix_table_parser" -> affix_table_parser(s, p.key, p.f)

first_match(results, hit) == IF hit = 0 THEN ResNone ELSE results[hit]

first_answer(results) ==
    first_match(results,
                FirstOf({ix \in 1..Len(results) : results[ix].tag # "None"}))

\* The inner loop of parse_affix: the result of the first parser of
\* ALL_PARSERS that does not answer None; None when every parser does
try_parsers(s) ==
    first_answer([ix \in 1..Len(ALL_PARSERS) |->
                     call_parser(ALL_PARSERS[ix], s)])

\* a push that leaves out a node equal to one already in the list
push_unique(v, node) ==
    IF \E i \in 1..Len(v) : v[i].tag = node.tag /\ v[i] = node THEN v
    ELSE Append(v, node)

\* ret.push(node)
push(v, node) == Append(v, node)

(***************************************************************************)
(* The inputs: up to MaxBlocks blocks of lines, joined by '\n', with or    *)
(* without a final '\n'                                                    *)
(***************************************************************************)

MaxBlocks == 2

BLOCKS ==
    << [kind |-> "blank",   \* ""
        text |-> <<>>],
       [kind |-> "comment",   \* "# c"
        text |-> <<"#", " ", "c">>],
       [kind |-> "unknown",   \* "FOO"
        text |-> <<"F", "O", "O">>],
       [kind |-> "indented",   \* " LANG en"
        text |-> <<" ", "L", "A", "N", "G", " ", "e", "n">>],
       [kind |-> "multibyte",   \* "é"
        text |-> <<"U+00E9">>],
       [kind |-> "single",   \* "LANG en"
        text |-> <<"L", "A", "N", "G", " ", "e", "n">>],
       [kind |-> "single",   \* "SET UTF-8"
        text |-> <<"S", "E", "T", " ", "U", "T", "F", "-", "8">>],
       [kind |-> "badpayload",   \* "COMPLEXPREFIXES x"
        text |-> <<"C", "O", "M", "P", "L", "E", "X", "P", "R", "E", "F", "I", "X",
                 "E", "S", " ", "x">>],
       [kind |-> "crtext",   \* "LANG en\rx"
        text |-> <<"L", "A", "N", "G", " ", "e", "n", "\r", "x">>],
       [kind |-> "table0",   \* "REP 0"
        text |-> <<"R", "E", "P", " ", "0">>],
       [kind |-> "table",   \* "REP 2\nREP a b\nREP c d"
        text |-> <<"R", "E", "P", " ", "2", "\n", "R", "E", "P", " ", "a", " ", "b",
                 "\n", "R", "E", "P", " ", "c", " ", "d">>],
       [kind |-> "tableshort",   \* "MAP 2\nMAP ab"
        text |-> <<"M", "A", "P", " ", "2", "\n", "M", "A", "P", " ", "a", "b">>],
       [kind |-> "tablebadrow",   \* "MAP 2\nMAP ab\nMAP a"
        text |-> <<"M", "A", "P", " ", "2", "\n", "M", "A", "P", " ", "a", "b", "\n",
                 "M", "A", "P", " ", "a">>],
       [kind |-> "tablecrtext",   \* "REP 2\nREP a b\rx\nREP c d"
        text |-> <<"R", "E", "P", " ", "2", "\n", "R", "E", "P", " ", "a", " ", "b",
                 "\r", "x", "\n", "R", "E", "P", " ", "c", " ", "d">>],
       [kind |-> "group",   \* "PFX A Y 1\nPFX A 0 re ."
        text |-> <<"P", "F", "X", " ", "A", " ", "Y", " ", "1", "\n", "P", "F", "X",
                 " ", "A", " ", "0", " ", "r", "e", " ", ".">>],
       [kind |-> "groupmismatch",   \* "PFX A Y 2\nPFX A 0 re .\nPFX B 0 un ."
        text |-> <<"P", "F", "X", " ", "A", " ", "Y", " ", "2", "\n", "P", "F", "X",
                 " ", "A", " ", "0", " ", "r", "e", " ", ".", "\n", "P", "F", "X",
                 " ", "B", " ", "0", " ", "u", "n", " ", ".">>],
       [kind |-> "groupshort",   \* "SFX A N 2\nSFX A 0 s ."
        text |-> <<"S", "F", "X", " ", "A", " ", "N", " ", "2", "\n", "S", "F", "X",
                 " ", "A", " ", "0", " ", "s", " ", ".">>],
       [kind |-> "groupbadrow",   \* "PFX A Y 2\nPFX A 0 re"
        text |-> <<"P", "F", "X", " ", "A", " ", "Y", " ", "2", "\n", "P", "F", "X",
                 " ", "A", " ", "0", " ", "r", "e">>],
       [kind |-> "group0",   \* "PFX A Y 0"
        text |-> <<"P", "F", "X", " ", "A", " ", "Y", " ", "0">>],
       [kind |-> "groupoverflow",   \* "PFX A Y 4294967296"
        text |-> <<"P", "F", "X", " ", "A", " ", "Y", " ", "4", "2", "9", "4", "9",
                 "6", "7", "2", "9", "6">>],
       [kind |-> "table",   \* "MAP 1\nMAP ab"
        text |-> <<"M", "A", "P", " ", "1", "\n", "M", "A", "P", " ", "a", "b">>],
       [kind |-> "crnbsp",   \* "LANG en\r\u{a0}x"
        text |-> <<"L", "A", "N", "G", " ", "e", "n", "\r", "U+00A0", "x">>],
       [kind |-> "flag",   \* "FLAG UTF-8"
        text |-> <<"F", "L", "A", "G", " ", "U", "T", "F", "-", "8">>],
       [kind |-> "commentcr",   \* "#a\rb"
        text |-> <<"#", "a", "\r", "b">>],
       [kind |-> "longword",   \* "LANGUAGE en"
        text |-> <<"L", "A", "N", "G", "U", "A", "G", "E", " ", "e", "n">>] >>

RECURSIVE JoinBlocks(_)
JoinBlocks(bs) ==
    IF bs = <<>> THEN <<>>
    ELSE IF Len(bs) = 1 THEN BLOCKS[bs[1]].text
    ELSE BLOCKS[bs[1]].text \o <<"\n">> \o JoinBlocks(Tail(bs))

(***************************************************************************)
(* parse_affix: the state is that of its main loop.  blocks and input are  *)
(* fixed by Init; starts records, for every node pushed, how many          *)
(* characters of the input came before the directive it was parsed from.   *)
(* status is "parsing" inside the loop, then "ok" (Ok(ret) was returned),  *)
(* "err" (Err(err) was returned) or "panic".                               *)
(***************************************************************************)

NoError == [ctx |-> [kind |-> "none"], line |-> 0, col |-> 0]

Init ==
    /\ blocks \in UNION {[1..n -> 1..Len(BLOCKS)] : n \in 0..MaxBlocks}
    /\ \E final_newline \in BOOLEAN :
          input = JoinBlocks(blocks) \o (IF final_newline THEN <<"\n">> ELSE <<>>)
    /\ working = input
    /\ ret = <<>>
    /\ starts = <<>>
    /\ nlines = 1
    /\ status = "parsing"
    /\ err = NoError
    /\ content_iter = <<>>
    /\ fname = None

\* while !working.is_empty() fails: Ok(ret)
Finish ==
    /\ status = "parsing"
    /\ working = <<>>
    /\ status' = "ok"
    /\ UNCHANGED <<fname, content_iter, blocks, input, working, ret, starts, nlines, err>>

\* the munch_newline m of the residual that follows a pushed node, with
\* nlines already advanced by the node's nl
munched(m, lines) ==
    CASE m.tag = "Some" ->
            /\ nlines' = lines + 1
            /\ working' = m.rest
            /\ UNCHANGED <<status, err>>
      [] m.tag = "None" ->
            /\ nlines' = lines
            /\ status' = "ok"
            /\ UNCHANGED <<working, err>>
      [] m.tag = "Err" ->
            /\ nlines' = lines
            /\ status' = "err"
            /\ err' = add_offset_ret(m.err, lines, 0)
            /\ UNCHANGED working
      [] OTHER -> FALSE

matched(tmp) ==
    /\ tmp.tag = "Some"
    /\ ret' = push(ret, tmp.node)
    /\ starts' = Append(starts, Len(input) - Len(working))
    /\ munched(munch_newline(tmp.residual), nlines + tmp.nl)

\* A parser matched: the node is pushed, then the rest of its line is
\* munched; at the end of the input the loop is left with Ok(ret)
Directive ==
    /\ status = "parsing"
    /\ working # <<>>
    /\ matched(try_parsers(working))
    /\ UNCHANGED <<fname, content_iter, blocks, input>>

failed(tmp) ==
    /\ tmp.tag = "Err"
    /\ status' = "err"
    /\ err' = add_offset_ret(tmp.err, nlines, 0)

\* A parser failed: its error, rebased by the running line counter
DirectiveError ==
    /\ status = "parsing"
    /\ working # <<>>
    /\ failed(try_parsers(working))
    /\ UNCHANGED <<fname, content_iter, blocks, input, working, ret, starts, nlines>>

\* Fallthrough without its last statement, working = &working[1..]
Fallthrough_no_advance ==
    /\ status = "parsing"
    /\ working # <<>>
    /\ try_parsers(working).tag = "None"
    /\ Width(working[1]) = 1
    /\ nlines' = IF starts_with(working, <<"\n">>) THEN nlines + 1 ELSE nlines
    /\ UNCHANGED <<fname, content_iter, blocks, input, working, ret, starts, status, err>>

\* No parser matched: one byte is skipped, counting the line if it is '\n'
Fallthrough ==
    /\ status = "parsing"
    /\ working # <<>>
    /\ try_parsers(working).tag = "None"
    /\ Width(working[1]) = 1
    /\ nlines' = IF starts_with(working, <<"\n">>) THEN nlines + 1 ELSE nlines
    /\ working' = Tail(working)
    /\ UNCHANGED <<fname, content_iter, blocks, input, ret, starts, status, err>>

panics(tmp) ==
    \/ tmp.tag = "Abort"
    \/ tmp.tag = "Some" /\ munch_newline(tmp.residual).tag = "Abort"
    \/ tmp.tag = "None" /\ Width(working[1]) > 1

\* The panics: an unwrap inside a parser or munch_newline, or the slice
\* &working[1..] when byte 1 is inside the first character
Panic ==
    /\ status = "parsing"
    /\ working # <<>>
    /\ panics(try_parsers(working))
    /\ status' = "panic"
    /\ UNCHANGED <<fname, content_iter, blocks, input, working, ret, starts, nlines, err>>

Next ==
    \/ Finish
    \/ Directive
    \/ DirectiveError
    \/ Fallthrough
    \/ Panic

Spec == Init /\ [][Next]_vars

(***************************************************************************)
(* A second family of inputs: one rule group of one row,                   *)
(*     KEY A <xprod> 1 / KEY <flag> 0 re .                                 *)
(* with every cross-product token of up to MaxToken characters, the row    *)
(* quoting the header's flag or another one, with more or less whitespace  *)
(* around its text.  SpecGroups runs parse_affix on these inputs and on    *)
(* those of Spec.                                                          *)
(***************************************************************************)

MaxToken == 2

group_text(key, xprod, lead, flag, trail) ==
    key \o <<" ", "A", " ">> \o xprod \o <<" ", "1", "\n">>
        \o key \o lead \o flag \o <<" ", "0", " ", "r", "e", " ", ".">> \o trail

\* the characters of the cross-product tokens are the four accepted
\* letters, another letter, a non-ASCII letter and a character that is no
\* \w; lead and trail are the text around the row's content
InitGroups ==
    /\ blocks = <<>>
    /\ \E key \in {PFX, SFX},
          xprod \in UNION {[1..n -> {"Y", "y", "N", "n", "X", "U+00E9", "?"}] :
                              n \in 1..MaxToken},
          lead \in {<<" ">>, <<" ", " ">>},
          flag \in {<<"A">>, <<"B">>},
          trail \in {<<>>, <<" ">>, <<" ", "#", " ", "c">>},
          final_newline \in BOOLEAN :
          input = group_text(key, xprod, lead, flag, trail)
                    \o (IF final_newline THEN <<"\n">> ELSE <<>>)
    /\ working = input
    /\ ret = <<>>
    /\ starts = <<>>
    /\ nlines = 1
    /\ status = "parsing"
    /\ err = NoError
    /\ content_iter = <<>>
    /\ fname = None

SpecGroups == (Init \/ InitGroups) /\ [][Next]_vars

(***************************************************************************)
(* A third family of inputs: the line LANG en, a carriage return, and      *)
(* every text of up to MaxTail characters after it, so that munch_newline  *)
(* meets every such residual.  SpecTails runs parse_affix on these inputs  *)
(* and on those of Spec.                                                   *)
(***************************************************************************)

MaxTail == 3

\* the characters of a tail: whitespace of one and of two bytes, two
\* letters, the comment character
InitTails ==
    /\ blocks = <<>>
    /\ \E tail \in UNION {[1..n -> {" ", "U+00A0", "x", "y", "#"}] :
                             n \in 0..MaxTail},
          final_newline \in BOOLEAN :
          input = <<"L", "A", "N", "G", " ", "e", "n", "\r">> \o tail
                    \o (IF final_newline THEN <<"\n">> ELSE <<>>)
    /\ working = input
    /\ ret = <<>>
    /\ starts = <<>>
    /\ nlines = 1
    /\ status = "parsing"
    /\ err = NoError
    /\ content_iter = <<>>
    /\ fname = None

SpecTails == (Init \/ InitTails) /\ [][Next]_vars

(***************************************************************************)
(* The .test files of test-util (lib.rs).  TestManager::new_from_str reads *)
(* a file of sections, each a heading between two "====" and the lines     *)
(* after it.  Here input is the file, content_iter the pieces between the  *)
(* "====" that are still to be read, ret the TestManager under             *)
(* construction, and status is "loading" before the comments are removed,  *)
(* "sections" inside the while loop, "loaded" when ret is returned and     *)
(* "panic" after a panic.  new_from_file reads the file named fname and    *)
(* calls new_from_str on its text: fname is None in a call of new_from_str *)
(* itself, status is "reading" before the file is read and "returned"      *)
(* when new_from_file has returned.                                        *)
(***************************************************************************)

\* str::lines: the pieces that end at a '\n', each without that '\n' and
\* without a '\r' before it, and the non-empty piece after the last '\n'
str_lines(s) ==
    [k \in 1..(IF s = <<>> \/ s[Len(s)] = "\n"
               THEN Len(split_char(s, "\n")) - 1
               ELSE Len(split_char(s, "\n"))) |->
        IF /\ k < Len(split_char(s, "\n"))
           /\ split_char(s, "\n")[k] # <<>>
           /\ split_char(s, "\n")[k][Len(split_char(s, "\n")[k])] = "\r"
        THEN SubSeq(split_char(s, "\n")[k], 1,
                    Len(split_char(s, "\n")[k]) - 1)
        ELSE split_char(s, "\n")[k]]

\* the text t stands in s at position i
stands_at(s, t, i) ==
    i + Len(t) - 1 <= Len(s) /\ SubSeq(s, i, i + Len(t) - 1) = t

\* the first position from i on that holds no whitespace: where a \s* that
\* starts at i ends
after_whitespace(s, i) ==
    Min({j \in i..(Len(s) + 1) : j = Len(s) + 1 \/ ~is_whitespace(s[j])})

\* attr.captures(line) for ATTR_RE = \s*%%\s*attr:(.*), a search: the
\* position of the first "%%" that optional whitespace and "attr:" follow,
\* 0 when the expression matches nowhere in the line
ATTR_RE(line) ==
    FirstOf({i \in 1..Len(line) :
                /\ stands_at(line, <<"%", "%">>, i)
                /\ stands_at(line, <<"a", "t", "t", "r", ":">>,
                             after_whitespace(line, i + 2))})

\* cmt.is_match(line) for CMT_RE = \s*%%.*, a search as well: some "%%"
\* stands somewhere in the line
CMT_RE(line) == \E i \in 1..Len(line) : stands_at(line, <<"%", "%">>, i)

\* an attribute holds caps.get(1), trimmed: the (.*) of the match, that is
\* the text after its "attr:" up to the next "\n" or the end (a . takes
\* no "\n")
determine_line(line) ==
    IF ATTR_RE(line) # 0
    THEN [kind |-> "Attribute",
          val |-> trim(Head(split_char(
                     DropTo(line, after_whitespace(line, ATTR_RE(line) + 2) + 5),
                     "\n")))]
    ELSE IF CMT_RE(line) THEN [kind |-> "Comment"]
    ELSE [kind |-> "Normal", val |-> line]

\* the fold of writeln!(a, "{b}") over the lines ls
RECURSIVE writeln(_)
writeln(ls) ==
    IF ls = <<>> THEN <<>> ELSE Head(ls) \o <<"\n">> \o writeln(Tail(ls))

\* input.lines(), filtered (attributes and normal lines are kept) and
\* folded
input_cleaned(s) ==
    writeln(SelectSeq(str_lines(s),
                      LAMBDA line : determine_line(line).kind
                                        \in {"Attribute", "Normal"}))

\* str::split(t) for a text t: the pieces between the occurrences of t,
\* found from the left and not overlapping
RECURSIVE split_str(_, _)
split_str(s, t) ==
    IF \A i \in 1..Len(s) : ~stands_at(s, t, i) THEN <<s>>
    ELSE <<SubSeq(s, 1, Min({i \in 1..Len(s) : stands_at(s, t, i)}) - 1)>>
         \o split_str(DropTo(s, Min({i \in 1..Len(s) : stands_at(s, t, i)})
                                  + Len(t)), t)

EQUALS == <<"=", "=", "=", "=">>

\* input_cleaned.trim().split("====").filter(|s| !s.is_empty())
content_pieces(s) ==
    SelectSeq(split_str(trim(input_cleaned(s)), EQUALS),
              LAMBDA piece : piece # <<>>)

\* determine_line on each line of a section's piece
determined_lines(ls) == [k \in 1..Len(ls) |-> determine_line(ls[k])]

\* the values of the lines of the given kind
vals_of(dl, kind) ==
    [k \in DOMAIN SelectSeq(dl, LAMBDA l : l.kind = kind) |->
        SelectSeq(dl, LAMBDA l : l.kind = kind)[k].val]

sec_attrs(dl) == vals_of(dl, "Attribute")

sec_content(dl) == writeln(vals_of(dl, "Normal"))

lines_content(dl) == str_lines(trim(sec_content(dl)))

\* parse_map: each non-blank line is key > value | value ...; a later line
\* replaces an earlier one of the same key
map_key(line) == trim(SubSeq(line, 1, find(line, {">"}) - 1))

map_values(line) ==
    [k \in DOMAIN split_char(DropTo(line, find(line, {">"}) + 1), "|") |->
        trim(split_char(DropTo(line, find(line, {">"}) + 1), "|")[k])]

map_of(ls) ==
    [key \in {map_key(ls[i]) : i \in 1..Len(ls)} |->
        map_values(ls[Max({i \in 1..Len(ls) : map_key(ls[i]) = key})])]

parse_map(s) ==
    IF \E i \in 1..Len(str_lines(s)) :
          trim(str_lines(s)[i]) # <<>> /\ find(str_lines(s)[i], {">"}) = 0
    THEN Err("bad mapping")
    ELSE Ok(map_of(SelectSeq(str_lines(s),
                             LAMBDA line : trim(line) # <<>>)))

\* the arms of match sec_title: the heading, the field of TestManager it
\* fills and how it fills it
SECTIONS == <<
    [title |-> <<"a", "f", "x", "_", "s", "t", "r">>,
     field |-> "afx_str", kind |-> "str"],
    [title |-> <<"d", "i", "c", "_", "s", "t", "r">>,
     field |-> "dic_str", kind |-> "str"],
    [title |-> <<"p", "e", "r", "s", "o", "n", "a", "l", "_", "s", "t", "r">>,
     field |-> "personal_str", kind |-> "str"],
    [title |-> <<"c", "h", "e", "c", "k", "_", "v", "a", "l", "i", "d">>,
     field |-> "check_valid", kind |-> "list"],
    [title |-> <<"c", "h", "e", "c", "k", "_", "i", "n", "v", "a", "l", "i", "d">>,
     field |-> "check_invalid", kind |-> "list"],
    [title |-> <<"w", "o", "r", "d", "l", "i", "s", "t">>,
     field |-> "wordlist", kind |-> "wordlist",
     extra |-> "wordlist_allow_extra"],
    [title |-> <<"w", "o", "r", "d", "l", "i", "s", "t", "_",
                 "n", "o", "s", "u", "g", "g", "e", "s", "t">>,
     field |-> "wordlist_nosuggest", kind |-> "wordlist",
     extra |-> "wordlist_nosuggest_allow_extra"],
    [title |-> <<"w", "o", "r", "d", "l", "i", "s", "t", "_",
                 "f", "o", "r", "b", "i", "d", "d", "e", "n">>,
     field |-> "wordlist_forbidden", kind |-> "wordlist",
     extra |-> "wordlist_forbidden_allow_extra"],
    [title |-> <<"s", "u", "g", "g", "e", "s", "t", "i", "o", "n", "s">>,
     field |-> "suggestions", kind |-> "map"],
    [title |-> <<"s", "t", "e", "m", "s">>,
     field |-> "stems", kind |-> "map"],
    [title |-> <<"m", "o", "r", "p", "h">>,
     field |-> "morphs", kind |-> "morph"],
    [title |-> <<"e", "n", "d">>,
     field |-> "", kind |-> "end"] >>

\* the arm that sec_title selects, 0 for the arm other
arm_of(sec_title) ==
    FirstOf({k \in 1..Len(SECTIONS) : SECTIONS[k].title = sec_title})

\* the panics of one turn of the loop once its piece of content is there:
\* unreachable!(), an unknown heading, an unknown attribute, a bad mapping,
\* a value of the map that v.parse().unwrap() fails on
arm_panics(arm, dl) ==
    \/ \E i \in 1..Len(dl) : dl[i].kind = "Comment"
    \/ arm = 0
    \/ /\ arm # 0
       /\ SECTIONS[arm].kind = "wordlist"
       /\ \E i \in 1..Len(sec_attrs(dl)) :
             sec_attrs(dl)[i] #
                 <<"a", "l", "l", "o", "w", "-", "e", "x", "t", "r", "a">>
    \/ /\ arm # 0
       /\ SECTIONS[arm].kind \in {"map", "morph"}
       /\ ~parse_map(sec_content(dl)).ok
    \/ /\ arm # 0
       /\ SECTIONS[arm].kind = "morph"
       /\ parse_map(sec_content(dl)).ok
       /\ \E key \in DOMAIN parse_map(sec_content(dl)).val :
             \E i \in 1..Len(parse_map(sec_content(dl)).val[key]) :
                 ~MorphInfo_try_from(
                     parse_map(sec_content(dl)).val[key][i]).ok

\* the assignment of the arm sec
arm_assigned(r, sec, dl) ==
    CASE sec.kind = "str" -> [r EXCEPT ![sec.field] = sec_content(dl)]
      [] sec.kind = "list" -> [r EXCEPT ![sec.field] = lines_content(dl)]
      [] sec.kind = "wordlist" ->
            [r EXCEPT ![sec.field] = lines_content(dl),
                      ![sec.extra] = r[sec.extra] \/ sec_attrs(dl) # <<>>]
      [] sec.kind \in {"map", "morph"} ->
            [r EXCEPT ![sec.field] = parse_map(sec_content(dl)).val]
      [] sec.kind = "end" -> r

\* Self::default()
TestManager_default ==
    [description |-> <<>>, fname |-> <<>>,
     afx_str |-> <<>>, dic_str |-> <<>>, personal_str |-> <<>>,
     check_valid |-> <<>>, check_invalid |-> <<>>,
     wordlist |-> <<>>, wordlist_nosuggest |-> <<>>,
     wordlist_forbidden |-> <<>>,
     wordlist_allow_extra |-> FALSE,
     wordlist_nosuggest_allow_extra |-> FALSE,
     wordlist_forbidden_allow_extra |-> FALSE,
     suggestions |-> <<>>, stems |-> <<>>, morphs |-> <<>>]

(***************************************************************************)
(* The files new_from_str is run on: a section of up to MaxTestLines lines *)
(* under one of five headings, alone or followed by a check_valid section. *)
(***************************************************************************)

MaxTestLines == 2


\* the heading line of a section
heading(title) == EQUALS \o <<" ">> \o title \o <<" ">> \o EQUALS

\* the lines of a body: a word, a comment, an indented comment, an
\* attribute, a mapping, and a word and a mapping with "%%" further on in
\* the line
TEST_FILES ==
    {writeln(<<heading(title)>> \o body \o tail) :
        title \in {SECTIONS[1].title, SECTIONS[6].title, SECTIONS[10].title,
                   SECTIONS[11].title, <<"x">>},
        body \in UNION {[1..n -> {
            <<"a", "b">>,
            <<"%", "%", " ", "c">>,
            <<" ", "%", "%", "c">>,
            <<"%", "%", " ", "a", "t", "t", "r", ":", " ",
              "a", "l", "l", "o", "w", "-", "e", "x", "t", "r", "a">>,
            <<"a", ">", "b", ":", "c", "|", "d", ":", "e">>,
            <<"a", "b", " ", "%", "%", " ", "c">>,
            <<"a", ">", "b", " ", "%", "%", "a", "t", "t", "r", ":", "x">>
            }] : n \in 0..MaxTestLines},
        tail \in {<<>>, <<heading(SECTIONS[4].title), <<"a", "b">> >>}}

\* new_from_str(input)
InitTest ==
    /\ blocks = <<>>
    /\ input \in TEST_FILES
    /\ working = <<>>
    /\ ret = TestManager_default
    /\ starts = <<>>
    /\ nlines = 1
    /\ status = "loading"
    /\ err = NoError
    /\ content_iter = <<>>
    /\ fname = None

\* the comments are removed and the text is cut at the "===="
Clean ==
    /\ status = "loading"
    /\ content_iter' = content_pieces(input)
    /\ status' = "sections"
    /\ UNCHANGED <<fname, blocks, input, working, ret, starts, nlines, err>>

\* one turn of the while loop: a heading and its content are taken from
\* content_iter and the arm of the heading is run; the arm end leaves the
\* loop
Section ==
    /\ status = "sections"
    /\ Len(content_iter) >= 2
    /\ ~arm_panics(arm_of(trim(content_iter[1])),
                   determined_lines(str_lines(content_iter[2])))
    /\ ret' = arm_assigned(ret, SECTIONS[arm_of(trim(content_iter[1]))],
                           determined_lines(str_lines(content_iter[2])))
    /\ status' = IF SECTIONS[arm_of(trim(content_iter[1]))].kind = "end"
                 THEN "loaded" ELSE "sections"
    /\ content_iter' = DropTo(content_iter, 3)
    /\ UNCHANGED <<fname, blocks, input, working, starts, nlines, err>>

\* a turn that panics: no content after the heading (expect), or a panic
\* of the arm
SectionPanic ==
    /\ status = "sections"
    /\ content_iter # <<>>
    /\ \/ Len(content_iter) = 1
       \/ /\ Len(content_iter) >= 2
          /\ arm_panics(arm_of(trim(content_iter[1])),
                        determined_lines(str_lines(content_iter[2])))
    /\ status' = "panic"
    /\ UNCHANGED <<fname, blocks, input, working, ret, starts, nlines, err,
                   content_iter>>

\* content_iter.next() is None: ret is returned
Loaded ==
    /\ status = "sections"
    /\ content_iter = <<>>
    /\ status' = "loaded"
    /\ UNCHANGED <<fname, blocks, input, working, ret, starts, nlines, err,
                   content_iter>>

\* new_from_file(fname): nothing is read yet
InitFile ==
    /\ blocks = <<>>
    /\ input = <<>>
    /\ working = <<>>
    /\ ret = TestManager_default
    /\ starts = <<>>
    /\ nlines = 1
    /\ status = "reading"
    /\ err = NoError
    /\ content_iter = <<>>
    /\ fname \in {Some(<<"a", ".", "t", "e", "s", "t">>),
                  Some(<<"b", ".", "t", "e", "s", "t">>)}

\* fs::read_to_string(&fpath) gives f_content, whatever the file holds, and
\* new_from_str(&f_content) is called
ReadFile ==
    /\ status = "reading"
    /\ input' \in TEST_FILES
    /\ status' = "loading"
    /\ UNCHANGED <<fname, blocks, working, ret, starts, nlines, err,
                   content_iter>>

\* fs::read_to_string fails: panic!("error reading file ..")
ReadPanic ==
    /\ status = "reading"
    /\ status' = "panic"
    /\ UNCHANGED <<fname, blocks, input, working, ret, starts, nlines, err,
                   content_iter>>

\* new_from_str has returned to new_from_file: ret.fname = fname.to_owned()
SetFname ==
    /\ status = "loaded"
    /\ fname.some
    /\ ret' = [ret EXCEPT !.fname = fname.val]
    /\ status' = "returned"
    /\ UNCHANGED <<fname, blocks, input, working, starts, nlines, err,
                   content_iter>>

NextTest ==
    \/ Clean
    \/ Section
    \/ SectionPanic
    \/ Loaded
    \/ ReadFile
    \/ ReadPanic
    \/ SetFname

SpecTest == (InitTest \/ InitFile) /\ [][NextTest]_vars

(***************************************************************************)
(* The source text, read independently of the parser                      *)
(***************************************************************************)

\* the 1-based source line of the character that follows the first off
\* characters of the input
source_line(off) == 1 + Cardinality({i \in 1..off : input[i] = "\n"})

\* the number of characters of the input before block k of blocks
RECURSIVE block_offset(_)
block_offset(k) ==
    IF k = 1 THEN 0
    ELSE block_offset(k - 1) + Len(BLOCKS[blocks[k - 1]].text) + 1

\* the kind of block k of the input
block_kind(k) == BLOCKS[blocks[k]].kind

\* the lines of the input from the place where node i was parsed: line 1 is
\* the directive's (header) line, line j + 1 the j-th line after it
directive_lines(i) == split_char(DropTo(input, starts[i] + 1), "\n")

\* the whitespace-separated words of the (header) line of node i
header_of(i) == split_whitespace(directive_lines(i)[1])

\* the words of the j-th line after the (header) line of node i
row_of(i, j) == split_whitespace(directive_lines(i)[j + 1])

\* parse_affix has returned
returned == status \in {"ok", "err"}

\* parse_affix is over: it has returned or panicked
over == status # "parsing"

(***************************************************************************)
(* C1: a rule group with a row quoting another flag                       *)
(***************************************************************************)

\* what may come before the group: blank, unknown and comment lines, tables
PRECEDING == {"blank", "unknown", "comment", "table", "table0"}

\* the input ends with the PFX group whose second row quotes flag B under
\* the header's flag A, and only PRECEDING blocks come before it
mismatch_last ==
    /\ blocks # <<>>
    /\ block_kind(Len(blocks)) = "groupmismatch"
    /\ \A k \in 1..(Len(blocks) - 1) : block_kind(k) \in PRECEDING

\* C1: once parse_affix is over on an input that ends with a well-formed
\* rule group whose second row quotes another flag than the header, whatever
\* blank, unknown, comment or table blocks precede the group, it has failed
\* with AffixFlagMismatch, the error's flag is the header's flag and its
\* line is the source line of that row (header line + 2).
C1_FlagMismatchAtRowLine ==
    (over /\ mismatch_last) =>
        /\ status = "err"
        /\ err.ctx.kind = "AffixFlagMismatch"
        /\ err.ctx.flag = <<"A">>
        /\ err.line = source_line(block_offset(Len(blocks))) + 2

(***************************************************************************)
(* C2: the rule groups of a successful parse                               *)
(***************************************************************************)

is_group(i) == ret[i].tag \in {"Prefix", "Suffix"}

\* C2: when parse_affix has returned Ok, every Prefix or Suffix node has as
\* many rules as the number its header line declares, carries the header's
\* flag, and each of the rows its rules came from quotes that flag.
C2_GroupMatchesHeader ==
    status = "ok" =>
        \A i \in 1..Len(ret) :
            is_group(i) =>
                /\ Len(ret[i].val.rules) = numeral_value(header_of(i)[4])
                /\ ret[i].val.flag = header_of(i)[2]
                /\ \A j \in 1..Len(ret[i].val.rules) :
                       row_of(i, j)[2] = ret[i].val.flag

\* a successful parse that holds a group with at least one rule
C2_Witness ==
    /\ status = "ok"
    /\ \E i \in 1..Len(ret) : is_group(i) /\ Len(ret[i].val.rules) >= 1

(***************************************************************************)
(* C3: the counted tables                                                  *)
(***************************************************************************)

AF == <<"A", "F">>
AM == <<"A", "M">>
REP == <<"R", "E", "P">>
MAP == <<"M", "A", "P">>
PHONE == <<"P", "H", "O", "N", "E">>
BREAK == <<"B", "R", "E", "A", "K">>
COMPOUNDRULE == <<"C", "O", "M", "P", "O", "U", "N", "D", "R", "U", "L", "E">>
CHECKCOMPOUNDPATTERN ==
    <<"C", "H", "E", "C", "K", "C", "O", "M", "P", "O", "U", "N", "D",
      "P", "A", "T", "T", "E", "R", "N">>
ICONV == <<"I", "C", "O", "N", "V">>
OCONV == <<"O", "C", "O", "N", "V">>

TABLE_KEYS ==
    {AF, AM, REP, MAP, PHONE, BREAK, COMPOUNDRULE, CHECKCOMPOUNDPATTERN,
     ICONV, OCONV}

is_table(i) == header_of(i)[1] \in TABLE_KEYS

\* what the words of a body row stand for in the node: a pair of words for
\* the conversions, a pair of characters for MAP, the word for the others
row_item(key, words) ==
    CASE key \in {REP, ICONV, OCONV} -> <<words[2], words[3]>>
      [] key = MAP -> <<words[2][1], words[2][2]>>
      [] OTHER -> words[2]

\* PHONE and CHECKCOMPOUNDPATTERN rows are structured by types defined
\* outside parser_affix.rs: only their number is compared
row_matches(key, item, words) ==
    key \in {PHONE, CHECKCOMPOUNDPATTERN} \/ item = row_item(key, words)

\* C3: every node parsed from a counted table carries as many elements as
\* the count its header line declares, and element j is what row j holds.
C3_TableMatchesHeader ==
    \A i \in 1..Len(ret) :
        is_table(i) =>
            /\ Len(ret[i].val) = numeral_value(header_of(i)[2])
            /\ \A j \in 1..Len(ret[i].val) :
                   row_matches(header_of(i)[1], ret[i].val[j], row_of(i, j))

\* a table node of two rows has been pushed
C3_Witness ==
    \E i \in 1..Len(ret) : is_table(i) /\ Len(ret[i].val) = 2

(***************************************************************************)
(* C4: the line an error reports                                           *)
(***************************************************************************)

\* When parse_affix returns an error, working still begins at the directive
\* that raised it
failing_offset == Len(input) - Len(working)

\* the lines of the input from the failing directive on
failing_lines == split_char(DropTo(input, failing_offset + 1), "\n")

\* the key and the payload of a line: its text before a separator
before_separator(l) ==
    IF find(l, SEPARATORS) = 0 THEN l
    ELSE SubSeq(l, 1, find(l, SEPARATORS) - 1)

ends_with(s, t) ==
    /\ Len(s) >= Len(t)
    /\ SubSeq(s, Len(s) - Len(t) + 1, Len(s)) = t

\* the errors raised by the payload of a directive's own line, a table's
\* header included, and those raised by a body row
HEADER_ERRORS == {"BadBool", "BadChar", "BadInt", "Encoding", "Flag"}

ROW_ERRORS ==
    {"CharCount", "ContainsWhitespace", "Conversion", "AffixBody",
     "AffixFlagMismatch"}

\* the line of the failing directive that raised an error of this kind
\* quoting the text s (1 is the directive's own line, 0 when there is none):
\* the directive's line for a payload error, the first body row whose text
\* is s for a row error
quoting_row(kind, s) ==
    FirstOf({k \in 1..Len(failing_lines) :
                /\ (k = 1) = (kind \in HEADER_ERRORS)
                /\ ends_with(trim(before_separator(failing_lines[k])), s)})

\* the first line of the failing directive that holds, after a carriage
\* return, text that begins with the character c
trailing_row(c) ==
    FirstOf({k \in 1..Len(failing_lines) :
                \E i \in 1..(Len(failing_lines[k]) - 1) :
                    /\ failing_lines[k][i] = "\r"
                    /\ failing_lines[k][i + 1] = c})

\* an error raised by a payload or a row reports the source line of the
\* payload or row it quotes
C4_QuotedLine ==
    (/\ status = "err"
     /\ err.ctx.kind \in HEADER_ERRORS \cup ROW_ERRORS
     /\ quoting_row(err.ctx.kind, err.ctx.s) # 0) =>
        err.line = source_line(failing_offset)
                     + quoting_row(err.ctx.kind, err.ctx.s) - 1

\* an error raised by the text that follows a payload or a row on its line
\* reports the source line of that text
C4_TrailingLine ==
    (/\ status = "err"
     /\ err.ctx.kind = "NonWhitespace"
     /\ trailing_row(err.ctx.c) # 0) =>
        err.line = source_line(failing_offset) + trailing_row(err.ctx.c) - 1

\* C4: an error raised by the payload of a single-line directive, or by a
\* body row of a table or rule group, reports the 1-based source line of
\* that directive or row, whatever blocks precede it.
C4_ErrorLineIsSourceLine == C4_QuotedLine /\ C4_TrailingLine

(***************************************************************************)
(* C5: where the directives that give nodes begin                          *)
(***************************************************************************)

\* the place of node i in the input is the beginning of a line
at_column_0(i) == starts[i] = 0 \/ input[starts[i]] = "\n"

\* C5: every node comes from a directive keyword at column 0 of a line; a
\* line that begins with anything else gives no node.
C5_NodesBeginAtColumn0 == \A i \in 1..Len(starts) : at_column_0(i)

(***************************************************************************)
(* C6: the output list                                                     *)
(***************************************************************************)

is_prefix(a, b) == Len(a) <= Len(b) /\ SubSeq(b, 1, Len(a)) = a

\* a step of the main loop at a directive that a parser accepts
accepting_step ==
    /\ status = "parsing"
    /\ working # <<>>
    /\ status' # "panic"
    /\ try_parsers(working).tag = "Some"

\* every step leaves the old list as a prefix of the new one, and a step at
\* an accepted directive appends exactly the node of that directive
appended ==
    /\ is_prefix(ret, ret')
    /\ is_prefix(starts, starts')
    /\ accepting_step => ret' = Append(ret, try_parsers(working).node)

\* the nodes stand in the order of their directives in the source
in_source_order ==
    /\ Len(starts) = Len(ret)
    /\ \A i \in 1..Len(starts) : \A j \in 1..Len(starts) :
           i < j => starts[i] < starts[j]

\* C6: the output list only grows by appending, one node for every accepted
\* directive, so that the nodes stand in source order and repeated
\* directives are neither merged, reordered nor dropped.
C6_AppendOnlyInSourceOrder == [][appended]_vars /\ []in_source_order

\* a successful parse of the same directive twice: two equal nodes
C6_Witness ==
    /\ status = "ok"
    /\ Len(ret) = 2
    /\ blocks[1] = blocks[2]
    /\ ret[1] = ret[2]

(***************************************************************************)
(* C7: the tables and groups of count 0                                    *)
(***************************************************************************)

\* the input is made of directives that each give one node, one of them a
\* table or a rule group of count 0, the last one a single-line directive
with_count_0 ==
    /\ \A k \in 1..Len(blocks) : block_kind(k) \in {"single", "table0", "group0"}
    /\ \E k \in 1..Len(blocks) : block_kind(k) \in {"table0", "group0"}
    /\ block_kind(Len(blocks)) = "single"

\* node k is the empty table or group of block k, or the node of the
\* single-line directive of block k
node_of_block(k) ==
    CASE block_kind(k) = "table0" -> ret[k].val = <<>>
      [] block_kind(k) = "group0" -> ret[k].val.rules = <<>>
      [] OTHER -> ret[k].tag \in {"Language", "Encoding"}

\* C7: a header of count 0 is accepted wherever it stands, gives a node with
\* an empty sequence, and the directives on the lines after it give theirs.
C7_Count0Accepted ==
    (over /\ with_count_0) =>
        /\ status = "ok"
        /\ Len(ret) = Len(blocks)
        /\ \A k \in 1..Len(blocks) : node_of_block(k)

(***************************************************************************)
(* C8: the tables and groups shorter than their count                      *)
(***************************************************************************)

working_lines == split_char(working, "\n")

head_words == split_whitespace(working_lines[1])

\* a count that str::parse::<u32> and the model's integers both hold
small_count(w) == AllDigit(w) /\ Len(w) <= 9

\* working begins with the header of a table, or of a rule group
at_table ==
    /\ Len(head_words) = 2
    /\ head_words[1] \in TABLE_KEYS
    /\ small_count(head_words[2])

at_group ==
    /\ Len(head_words) = 4
    /\ head_words[1] \in {PFX, SFX}
    /\ small_count(head_words[4])

declared == numeral_value(head_words[IF at_table THEN 2 ELSE 4])

\* line k of working begins with the header's key
keyed(k) ==
    /\ split_whitespace(working_lines[k]) # <<>>
    /\ split_whitespace(working_lines[k])[1] = head_words[1]

\* the number of consecutive lines after the header that begin with its key
rows_present ==
    Cardinality({k \in 2..Len(working_lines) : \A j \in 2..k : keyed(j)})

\* every table or group node has at least the rows its header declares
no_short_node ==
    \A i \in 1..Len(ret) :
        /\ is_table(i) => Len(ret[i].val) >= numeral_value(header_of(i)[2])
        /\ is_group(i) => Len(ret[i].val.rules) >= numeral_value(header_of(i)[4])

\* the input ends with a table or a rule group whose header declares more
\* rows than follow it ("MAP 2\nMAP ab", "SFX A N 2\nSFX A 0 s .",
\* "PFX A Y 4294967296"), the rows that are present being well formed, and
\* only blank, unknown and comment lines and directives that each give one
\* node come before it
short_last ==
    /\ blocks # <<>>
    /\ block_kind(Len(blocks)) \in {"tableshort", "groupshort", "groupoverflow"}
    /\ \A k \in 1..(Len(blocks) - 1) :
           block_kind(k) \in PRECEDING \cup {"single", "group", "group0"}

\* the words of the header line of the last block of the input
last_header ==
    split_whitespace(split_char(BLOCKS[blocks[Len(blocks)]].text, "\n")[1])

\* C8: once parse_affix is over on an input that ends with a table or a
\* rule group of declared count N >= 1 followed by fewer than N rows, it has
\* failed with TableCount and the error's expected field is N; and no node
\* ever has fewer rows than its header declares.
C8_ShortIsTableCount ==
    /\ (over /\ short_last) =>
           /\ status = "err"
           /\ err.ctx.kind = "TableCount"
           /\ err.ctx.expected = numeral_value(last_header[Len(last_header)])
    /\ no_short_node

(***************************************************************************)
(* C9: text after a payload                                                *)
(***************************************************************************)

\* the input ends with LANG en, a carriage return and the text x, after
\* single-line directives only
trailing_text_last ==
    /\ blocks # <<>>
    /\ block_kind(Len(blocks)) = "crtext"
    /\ \A k \in 1..(Len(blocks) - 1) : block_kind(k) = "single"

\* C9: text other than whitespace and a comment after a payload, on the
\* payload's line, makes parse_affix fail with NonWhitespace of its first
\* character.
C9_TrailingTextRefused ==
    (over /\ trailing_text_last) =>
        /\ status = "err"
        /\ err.ctx.kind = "NonWhitespace"
        /\ err.ctx.c = "x"

(***************************************************************************)
(* C10: totality                                                           *)
(***************************************************************************)

\* C10: parse_affix returns nodes or an error on every input; it never
\* panics.
C10_NeverPanics == status # "panic"

(***************************************************************************)
(* C11: the nodes of FLAG and SET                                          *)
(***************************************************************************)

FLAG == <<"F", "L", "A", "G">>
SET == <<"S", "E", "T">>

\* C11: the node parsed from a FLAG line is a Flag node and the node parsed
\* from a SET line an Encoding node, so the two directives can be told apart
\* by the tag of their nodes.
C11_FlagNodeIsFlag ==
    \A i \in 1..Len(ret) :
        /\ header_of(i)[1] = FLAG => ret[i].tag = "Flag"
        /\ header_of(i)[1] = SET => ret[i].tag = "Encoding"

(***************************************************************************)
(* C12: comment lines and blank lines                                      *)
(***************************************************************************)

input_lines == split_char(input, "\n")

\* every line of the input is empty or begins with '#'
comments_and_blanks ==
    \A k \in 1..Len(input_lines) :
        input_lines[k] = <<>> \/ input_lines[k][1] = "#"

comment_lines == {k \in 1..Len(input_lines) : input_lines[k] # <<>>}

\* C12: on an input whose lines are all empty or begin with '#', parse_affix
\* returns Ok with one Comment node for every line that begins with '#' and
\* no other node; on the empty input it returns the empty list.
C12_CommentsOnly ==
    (over /\ comments_and_blanks) =>
        /\ status = "ok"
        /\ Len(ret) = Cardinality(comment_lines)
        /\ \A i \in 1..Len(ret) : ret[i].tag = "Comment"

(***************************************************************************)
(* C13: the cross-product token of a rule group's header                   *)
(***************************************************************************)

\* the input is a rule group of the second family: a header of four words,
\* the first PFX or SFX, then one row
one_group ==
    /\ blocks = <<>>
    /\ Len(input_lines) >= 2
    /\ Len(split_whitespace(input_lines[1])) = 4
    /\ split_whitespace(input_lines[1])[1] \in {PFX, SFX}

\* the cross-product token as it stands in the header line
xprod_token == split_whitespace(input_lines[1])[3]

\* the row quotes the header's flag
row_flag_matches ==
    split_whitespace(input_lines[2])[2] = split_whitespace(input_lines[1])[2]

cross_product_refused ==
    /\ status = "err"
    /\ err.ctx.kind = "AffixCrossProduct"
    /\ err.ctx.s = xprod_token

combines(b) ==
    /\ status = "ok"
    /\ Len(ret) = 1
    /\ ret[1].val.can_combine = b

\* C13: a header whose cross-product token is Y or y gives can_combine =
\* TRUE, N or n gives FALSE, and every other token, made of word characters
\* or not, makes parse_affix fail with AffixCrossProduct(token).
C13_CrossProduct ==
    (over /\ one_group) =>
        /\ xprod_token \notin {<<"Y">>, <<"y">>, <<"N">>, <<"n">>}
              => cross_product_refused
        /\ (xprod_token \in {<<"Y">>, <<"y">>} /\ row_flag_matches)
              => combines(TRUE)
        /\ (xprod_token \in {<<"N">>, <<"n">>} /\ row_flag_matches)
              => combines(FALSE)

\* C13, amended: Y or y gives can_combine = TRUE, N or n gives FALSE, every
\* other token made of word characters makes parse_affix fail with
\* AffixCrossProduct(token), and a token that holds another character fails
\* the header grammar: AffixBody.
C13_CrossProductOfWords ==
    (over /\ one_group) =>
        /\ ~AllWord(xprod_token)
              => (status = "err" /\ err.ctx.kind = "AffixBody")
        /\ (/\ AllWord(xprod_token)
            /\ xprod_token \notin {<<"Y">>, <<"y">>, <<"N">>, <<"n">>})
              => cross_product_refused
        /\ (xprod_token \in {<<"Y">>, <<"y">>} /\ row_flag_matches)
              => combines(TRUE)
        /\ (xprod_token \in {<<"N">>, <<"n">>} /\ row_flag_matches)
              => combines(FALSE)

\* a group whose header holds the token yN has been refused for it
C13_Witness ==
    /\ one_group
    /\ xprod_token = <<"y", "N">>
    /\ cross_product_refused

(***************************************************************************)
(* C14: the text an AffixFlagMismatch quotes                               *)
(***************************************************************************)

\* the flag of the header at which the parse failed
failing_flag == split_whitespace(failing_lines[1])[2]

\* the first line after that header whose second word is not its flag
mismatch_row ==
    FirstOf({k \in 2..Len(failing_lines) :
                /\ Len(split_whitespace(failing_lines[k])) >= 2
                /\ split_whitespace(failing_lines[k])[2] # failing_flag})

flag_mismatch == status = "err" /\ err.ctx.kind = "AffixFlagMismatch"

\* C14: an AffixFlagMismatch error names the header's flag and quotes the
\* whole text of the offending row, its PFX or SFX keyword included.
C14_MismatchQuotesRow ==
    flag_mismatch =>
        /\ err.ctx.flag = failing_flag
        /\ err.ctx.s = trim(before_separator(failing_lines[mismatch_row]))

\* C14, amended: the error names the header's flag and quotes the text of
\* the offending row that follows its keyword, up to a separator, trimmed.
C14_MismatchQuotesContent ==
    flag_mismatch =>
        /\ err.ctx.flag = failing_flag
        /\ err.ctx.s =
              trim(before_separator(DropTo(failing_lines[mismatch_row], 4)))

\* the row of the scenario, PFX B 0 un . under the header PFX A Y 2, has
\* been refused
C14_Witness ==
    /\ flag_mismatch
    /\ failing_lines[mismatch_row]
          = <<"P", "F", "X", " ", "B", " ", "0", " ", "u", "n", " ", ".">>

(***************************************************************************)
(* C15: the running line counter                                           *)
(***************************************************************************)

\* the part of the input that the main loop has consumed
consumed == Len(input) - Len(working)

\* C15: at the head of every iteration of the main loop, nlines is 1 plus
\* the number of '\n' characters in the part of the input already consumed.
C15_LineCounter == status = "parsing" => nlines = source_line(consumed)

\* the loop is at its head after a table of count 0 and a blank line
C15_Witness ==
    /\ status = "parsing"
    /\ Len(ret) = 1
    /\ is_table(1) /\ Len(ret[1].val) = 0
    /\ nlines = 3

(***************************************************************************)
(* C16: termination                                                        *)
(***************************************************************************)

\* a is a suffix of b, and shorter
is_proper_suffix(a, b) == Len(a) < Len(b) /\ ends_with(b, a)

\* an iteration: it begins inside the loop, and it ends the loop or leaves
\* as residual a strictly shorter suffix of the residual it found
iteration ==
    /\ status = "parsing"
    /\ status' # "parsing" \/ is_proper_suffix(working', working)

\* the shapes of what a parser and munch_newline answer
ANSWERS == {"Some", "None", "Err", "Abort"}

\* inside the loop there is always a next step: the while test fails, or
\* the parsers give an answer, and munch_newline does after a match
completes ==
    \/ working = <<>>
    \/ /\ try_parsers(working).tag \in ANSWERS
       /\ try_parsers(working).tag = "Some" =>
              munch_newline(try_parsers(working).residual).tag \in ANSWERS

\* C16: parse_affix terminates: every step is an iteration of the main loop
\* that either ends the loop or replaces the residual by a strictly shorter
\* suffix of itself, and no iteration is left unfinished.
C16_Terminates == [][iteration]_vars /\ [](status = "parsing" => completes)

\* the loop has come to its end by consuming a whole input of two blocks
C16_Witness ==
    /\ status = "ok"
    /\ Len(blocks) = 2
    /\ working = <<>>
    /\ nlines >= 3

(***************************************************************************)
(* C17: the order of ALL_PARSERS                                           *)
(***************************************************************************)

PARSERS == 1..Len(ALL_PARSERS)

\* no registered key is a prefix of another one
prefix_free ==
    \A i \in PARSERS : \A j \in PARSERS :
        i # j => ~starts_with(ALL_PARSERS[j].key, ALL_PARSERS[i].key)

\* the parsers that answer something else than None on s
answering(s) == {ix \in PARSERS : call_parser(ALL_PARSERS[ix], s).tag # "None"}

\* the inner loop over ALL_PARSERS in the reverse order
try_parsers_reversed(s) ==
    first_answer([ix \in PARSERS |->
                     call_parser(ALL_PARSERS[Len(ALL_PARSERS) + 1 - ix], s)])

answer_of(found, s) ==
    IF found = {} THEN ResNone
    ELSE call_parser(ALL_PARSERS[CHOOSE ix \in found : TRUE], s)

\* a dispatcher that applies the parser whose key stands at the head of s
key_dispatch(s) ==
    answer_of({ix \in PARSERS : starts_with(s, ALL_PARSERS[ix].key)}, s)

\* the keyword of a line: '#', or its text up to the first whitespace
keyword(s) ==
    IF s[1] = "#" THEN <<"#">>
    ELSE IF is_whitespace(s[1]) THEN <<>>
    ELSE SubSeq(s, 1, token_end(s, 1))

\* a dispatcher that looks the keyword of the line up among the keys
keyword_dispatch(s) ==
    answer_of({ix \in PARSERS : ALL_PARSERS[ix].key = keyword(s)}, s)

in_loop == status = "parsing" /\ working # <<>>

\* C17, amended: no key is a prefix of another, at most one parser answers
\* at any head, and the answer of the inner loop is the same in the reverse
\* order and the same as that of a dispatcher that applies the parser whose
\* key stands at the head of the input.
C17_OrderIndependent ==
    /\ prefix_free
    /\ in_loop =>
          /\ Cardinality(answering(working)) <= 1
          /\ try_parsers(working) = try_parsers_reversed(working)
          /\ try_parsers(working) = key_dispatch(working)

\* C17: the same, and the answer of the inner loop is that of a dispatcher
\* that looks the keyword of the line up directly.
C17_KeywordDispatch ==
    /\ C17_OrderIndependent
    /\ in_loop => try_parsers(working) = keyword_dispatch(working)

\* the loop is at a table header, which its one parser accepts
C17_Witness ==
    /\ in_loop
    /\ starts_with(working, REP)
    /\ Cardinality(answering(working)) = 1
    /\ try_parsers_reversed(working).tag = "Some"
    /\ Len(try_parsers_reversed(working).node.val) = 2

(***************************************************************************)
(* C18: munch_newline                                                      *)
(***************************************************************************)

\* the text of s before its first '\n', cut at its first '#'
munched_text(s) == SubSeq(s, 1, find(s, {"\n", "#"}) - 1)

\* what munch_newline is to answer on s
munch_expected(s) ==
    IF find(s, {"\n"}) = 0 THEN ResNone
    ELSE IF find_non_whitespace(munched_text(s)) # 0
    THEN ResErr(new_nospan(
             [kind |-> "NonWhitespace",
              c |-> munched_text(s)[find_non_whitespace(munched_text(s))]]))
    ELSE [tag |-> "Some", rest |-> DropTo(s, find(s, {"\n"}) + 1)]

\* the main loop is at a directive that a parser accepts
at_accepted == in_loop /\ try_parsers(working).tag = "Some"

\* C18: on the residual of every accepted directive, munch_newline answers
\* None when the residual holds no '\n'; otherwise NonWhitespace(c), c the
\* first character that is no whitespace in the text before the first '\n'
\* cut at its first '#', whatever whitespace precedes c; otherwise the text
\* after the '\n'.
C18_MunchNewline ==
    at_accepted =>
        munch_newline(try_parsers(working).residual)
            = munch_expected(try_parsers(working).residual)

(***************************************************************************)
(* C19: the numbers of a TableCount error                                  *)
(***************************************************************************)

table_count_error == status = "err" /\ err.ctx.kind = "TableCount"

\* C19: a TableCount error holds the count that the header declares and the
\* number of rows of the table or group that were read, also when the
\* input ends right after a row.
C19_TableCountReceived ==
    table_count_error =>
        /\ err.ctx.expected = declared
        /\ err.ctx.received = rows_present

(***************************************************************************)
(* C20: the comments of a .test file                                       *)
(***************************************************************************)

\* the line starts with "%%" after optional whitespace
starts_with_percents(line) ==
    stands_at(line, <<"%", "%">>, after_whitespace(line, 1))

not_percents(line) == ~starts_with_percents(line)

\* the file is one section afx_str: its heading on the first line and no
\* "====" on a later line
one_afx_section ==
    /\ str_lines(input) # <<>>
    /\ str_lines(input)[1] = heading(SECTIONS[1].title)
    /\ \A k \in 2..Len(str_lines(input)) :
          \A i \in 1..Len(str_lines(input)[k]) :
              ~stands_at(str_lines(input)[k], EQUALS, i)

\* C20: when new_from_str has loaded a file of one section afx_str, the
\* lines of ret.afx_str are the end of the heading line and then, in order
\* and unchanged, every line of the section that does not start with "%%"
\* after optional whitespace, wherever else "%%" occurs in it.
C20_OnlyCommentsRemoved ==
    (status = "loaded" /\ one_afx_section) =>
        str_lines(ret.afx_str) =
            << <<>> >> \o SelectSeq(Tail(str_lines(input)), not_percents)

====
